---- MODULE Spec2Model ----
(***************************************************************************)
(* covrs: the coverage store (src/db.rs), the ingest pipeline              *)
(* (src/ingest.rs) and the unified-diff parser (src/diff.rs).              *)
(*                                                                         *)
(* The store is the committed content of the SQLite database: one set of  *)
(* rows per table.  An ingest runs in one transaction, so it is one       *)
(* action: it computes the transaction's working copy from the committed  *)
(* store and either commits it or, on any error, leaves the committed     *)
(* store as it was (rusqlite rolls a dropped Transaction back).           *)
(***************************************************************************)
EXTENDS Integers, Sequences, FiniteSets, TLC

(***************************************************************************)
(* Bounds of the model.                                                    *)
(***************************************************************************)
MaxLine == 2
MaxHit == 1
MaxFiles == 2
MaxFileLines == 1
MaxFileRows == 2
MaxStoreRows == 2
MaxDiffLines == 3
MaxDiffElems == 3
MaxBody == 2
INSERT_BATCH_SIZE == 2
BATCH_SIZE == 2

Names == {"r1", "r2"}
Paths == {"a", "b"}
Lines == 1..MaxLine
Hits == 0..MaxHit

\* Option<u32>::None, stored as SQL NULL.
None == -1

(***************************************************************************)
(* Generic helpers.                                                        *)
(***************************************************************************)
SetMax(S) == CHOOSE x \in S : \A y \in S : y <= x

SetMin(S) == CHOOSE x \in S : \A y \in S : x <= y

RECURSIVE SortedSeq(_)
SortedSeq(S) ==
    IF S = {} THEN << >>
    ELSE LET m == SetMin(S) IN << m >> \o SortedSeq(S \ {m})

SeqsUpTo(S, n) == UNION { [1..k -> S] : k \in 0..n }

Range(f) == { f[i] : i \in DOMAIN f }

(***************************************************************************)
(* src/model.rs: the uniform in-memory records.                            *)
(***************************************************************************)
LineCoverage == [line_number : Lines, hit_count : Hits]

BranchCoverage == [line_number : {1}, branch_index : {0}, hit_count : Hits]

FunctionCoverage ==
    [name : {"f"}, start_line : {None, 1}, end_line : {None}, hit_count : Hits]

RowCount(f) == Len(f.lines) + Len(f.branches) + Len(f.functions)

FileCoverage ==
    [path : Paths,
     lines : SeqsUpTo(LineCoverage, MaxFileLines),
     branches : SeqsUpTo(BranchCoverage, 1),
     functions : SeqsUpTo(FunctionCoverage, 1)]

\* The file sequences a producer (CoverageData.files or a parser) emits.
\* Payloads: up to MaxFiles files of line coverage, a path or a line number
\* possibly emitted twice.
Payloads ==
    SeqsUpTo({ f \in FileCoverage :
                 /\ Len(f.lines) <= MaxFileLines
                 /\ f.branches = << >>
                 /\ f.functions = << >> }, MaxFiles)

\* RowPayloads: at most one file, of up to MaxFileRows rows of any kind, its
\* line coverage on the line that also carries the branch.
RowPayloads ==
    SeqsUpTo({ f \in FileCoverage :
                 /\ Len(f.lines) <= MaxFileLines
                 /\ \A i \in DOMAIN f.lines : f.lines[i].line_number = 1
                 /\ RowCount(f) <= MaxFileRows }, 1)

(***************************************************************************)
(* The store: schema.sql tables as sets of rows.                           *)
(***************************************************************************)
EmptyStore ==
    [report |-> {}, source_file |-> {}, line_coverage |-> {},
     branch_coverage |-> {}, function_coverage |-> {}]

\* The surrogate id of a new row in a table whose ids are ids: an id no row
\* of the table has.
NextRowId(ids) == SetMin((1..(Cardinality(ids) + 1)) \ ids)

\* FOREIGN KEY ... REFERENCES report(id) ON DELETE CASCADE, foreign_keys=ON.
OnDeleteCascade(s) ==
    LET live == { r.id : r \in s.report } IN
    [s EXCEPT
        !.line_coverage = { x \in @ : x.report_id \in live },
        !.branch_coverage = { x \in @ : x.report_id \in live },
        !.function_coverage = { x \in @ : x.report_id \in live }]

\* The mutant of DeleteReportWhereName: the coverage rows of the report stay.
DeleteReportKeepsRows(s, name) ==
    [s EXCEPT !.report = { r \in @ : r.name # name }]

\* The DELETE left out.
DeleteReportSkipped(s, name) == s

\* DELETE FROM report WHERE name = ?1
DeleteReportWhereName(s, name) ==
    OnDeleteCascade([s EXCEPT !.report = { r \in @ : r.name # name }])

ReferencedFiles(s) ==
    { x.source_file_id : x \in s.line_coverage }
        \cup { x.source_file_id : x \in s.branch_coverage }
        \cup { x.source_file_id : x \in s.function_coverage }

\* The purge left out.
PurgeNothing(s) == s

\* DELETE FROM source_file WHERE id NOT IN (SELECT ... UNION ...)
PurgeOrphanFiles(s) ==
    [s EXCEPT !.source_file = { f \in @ : f.id \in ReferencedFiles(s) }]

\* The INSERT without the UNIQUE constraint on report.name.
InsertReportAnyName(s, name) ==
    LET id == NextRowId({ r.id : r \in s.report }) IN
    [ok |-> TRUE,
     store |-> [s EXCEPT !.report = @ \cup {[id |-> id, name |-> name]}],
     report_id |-> id]

\* INSERT INTO report (...): report.name is UNIQUE, a duplicate is a
\* ConstraintViolation, mapped to the "already exists" error.
InsertReport(s, name) ==
    IF \E r \in s.report : r.name = name
    THEN [ok |-> FALSE, store |-> s, report_id |-> 0]
    ELSE LET id == NextRowId({ r.id : r \in s.report }) IN
         [ok |-> TRUE,
          store |-> [s EXCEPT !.report = @ \cup {[id |-> id, name |-> name]}],
          report_id |-> id]

\* INSERT INTO source_file (path) ... ON CONFLICT(path) DO UPDATE ... RETURNING id
get_or_insert_source_file_owned(s, path, cache) ==
    IF path \in DOMAIN cache
    THEN [store |-> s, id |-> cache[path], cache |-> cache]
    ELSE LET hit == { f \in s.source_file : f.path = path }
             id == IF hit # {} THEN (CHOOSE f \in hit : TRUE).id
                   ELSE NextRowId({ f.id : f \in s.source_file })
             s2 == IF hit # {} THEN s
                   ELSE [s EXCEPT !.source_file =
                                     @ \cup {[id |-> id, path |-> path]}]
         IN [store |-> s2, id |-> id,
             cache |-> [p \in DOMAIN cache \cup {path} |->
                           IF p = path THEN id ELSE cache[p]]]

(***************************************************************************)
(* src/db.rs: BatchInsert, the multi-row INSERT accumulator.               *)
(***************************************************************************)
\* INSERT OR IGNORE in place of INSERT OR REPLACE: the first row of a key stays.
UpsertLineKeepsFirst(s, v) ==
    IF \E x \in s.line_coverage :
          x.report_id = v[1] /\ x.source_file_id = v[2] /\ x.line_number = v[3]
    THEN s
    ELSE [s EXCEPT !.line_coverage =
            @ \cup {[report_id |-> v[1], source_file_id |-> v[2],
                     line_number |-> v[3], hit_count |-> v[4]]}]

\* INSERT OR REPLACE INTO line_coverage: the primary key is
\* (report_id, source_file_id, line_number).
UpsertLine(s, v) ==
    [s EXCEPT !.line_coverage =
        { x \in @ : ~(x.report_id = v[1] /\ x.source_file_id = v[2]
                        /\ x.line_number = v[3]) }
        \cup {[report_id |-> v[1], source_file_id |-> v[2],
               line_number |-> v[3], hit_count |-> v[4]]}]

\* INSERT OR REPLACE INTO branch_coverage: the primary key is
\* (report_id, source_file_id, line_number, branch_index).
UpsertBranch(s, v) ==
    [s EXCEPT !.branch_coverage =
        { x \in @ : ~(x.report_id = v[1] /\ x.source_file_id = v[2]
                        /\ x.line_number = v[3] /\ x.branch_index = v[4]) }
        \cup {[report_id |-> v[1], source_file_id |-> v[2],
               line_number |-> v[3], branch_index |-> v[4],
               hit_count |-> v[5]]}]

\* INSERT INTO function_coverage ... ON CONFLICT(report_id, source_file_id,
\* name, COALESCE(start_line, -1)) DO UPDATE SET hit_count, end_line.
UpsertFunction(s, v) ==
    [s EXCEPT !.function_coverage =
        { x \in @ : ~(x.report_id = v[1] /\ x.source_file_id = v[2]
                        /\ x.name = v[3] /\ x.start_line = v[4]) }
        \cup {[report_id |-> v[1], source_file_id |-> v[2], name |-> v[3],
               start_line |-> v[4], end_line |-> v[5], hit_count |-> v[6]]}]

WriteRow(s, table, v) ==
    CASE table = "line_coverage" -> UpsertLine(s, v)
      [] table = "branch_coverage" -> UpsertBranch(s, v)
      [] table = "function_coverage" -> UpsertFunction(s, v)

\* tx.execute of the multi-row statement: the rows of params, in order.
RECURSIVE ExecuteRows(_, _, _, _)
ExecuteRows(s, table, cols, params) ==
    IF params = << >> THEN s
    ELSE ExecuteRows(WriteRow(s, table, SubSeq(params, 1, cols)), table, cols,
                     SubSeq(params, cols + 1, Len(params)))

BatchInsertNew(table, cols) ==
    [table |-> table, cols |-> cols, params |-> << >>, rows |-> 0,
     flushed |-> TRUE]

\* BatchInsert::flush; fails says that tx.execute returns an error.
BatchFlush(b, s, fails) ==
    IF b.rows = 0
    THEN [ok |-> TRUE, batch |-> [b EXCEPT !.flushed = TRUE], store |-> s]
    ELSE IF fails
    THEN [ok |-> FALSE, batch |-> b, store |-> s]
    ELSE [ok |-> TRUE,
          batch |-> [b EXCEPT !.params = << >>, !.rows = 0, !.flushed = TRUE],
          store |-> ExecuteRows(s, b.table, b.cols, b.params)]

\* BatchInsert::push_row
BatchPushRow(b, s, values, fails) ==
    LET b1 == [b EXCEPT !.params = @ \o values, !.rows = @ + 1,
                        !.flushed = FALSE]
    IN IF b1.rows >= INSERT_BATCH_SIZE
       THEN BatchFlush(b1, s, fails)
       ELSE [ok |-> TRUE, batch |-> b1, store |-> s]

\* opt_u32
opt_u32(v) == v

(***************************************************************************)
(* src/db.rs: insert_coverage_tx.  t is the state of the call: the        *)
(* transaction's working store, the file id cache and the three batches.   *)
(* fault = "flush" makes the execute of the line_coverage batch fail.      *)
(***************************************************************************)
\* `batch.push_row(..)?` and `batch.flush()?`: the call's state after r, the
\* outcome of a push or a flush of the batch `which`.
AfterBatch(t, which, r) ==
    [t EXCEPT !.ok = r.ok, ![which] = r.batch, !.store = r.store]

RECURSIVE PushRows(_, _, _, _)
PushRows(t, which, rows, fault) ==
    IF rows = << >> \/ ~t.ok THEN t
    ELSE PushRows(AfterBatch(t, which,
                      BatchPushRow(t[which], t.store, Head(rows),
                                   fault = "flush" /\ which = "lines")),
                  which, Tail(rows), fault)

\* The three loops of the emit closure, file_id being the file's row id.
EmitRows(t, report_id, file_id, file_cov, fault) ==
    PushRows(
        PushRows(
            PushRows(t, "lines",
                [i \in DOMAIN file_cov.lines |->
                    << report_id, file_id, file_cov.lines[i].line_number,
                       file_cov.lines[i].hit_count >>], fault),
            "branches",
            [i \in DOMAIN file_cov.branches |->
                << report_id, file_id, file_cov.branches[i].line_number,
                   file_cov.branches[i].branch_index,
                   file_cov.branches[i].hit_count >>], fault),
        "functions",
        [i \in DOMAIN file_cov.functions |->
            << report_id, file_id, file_cov.functions[i].name,
               opt_u32(file_cov.functions[i].start_line),
               opt_u32(file_cov.functions[i].end_line),
               file_cov.functions[i].hit_count >>], fault)

\* The emit closure after get_or_insert_source_file_owned returned g.
EmitInto(t, g, report_id, file_cov, fault) ==
    EmitRows([t EXCEPT !.store = g.store, !.cache = g.cache], report_id, g.id,
             file_cov, fault)

\* The emit closure handed to with_files.
EmitFile(t, report_id, file_cov, fault) ==
    EmitInto(t, get_or_insert_source_file_owned(t.store, file_cov.path, t.cache),
             report_id, file_cov, fault)

\* with_files: the producer emits its files in order and stops at the first
\* error emit returns.
RECURSIVE EmitAll(_, _, _, _)
EmitAll(t, report_id, files, fault) ==
    IF files = << >> \/ ~t.ok THEN t
    ELSE EmitAll(EmitFile(t, report_id, Head(files), fault), report_id,
                 Tail(files), fault)

\* `batch.flush()?`: skipped once an earlier `?` has returned.
FlushBatch(t, which, fails) ==
    IF ~t.ok THEN t
    ELSE AfterBatch(t, which, BatchFlush(t[which], t.store, fails))

\* The three final flushes, each followed by `?`.
FinalFlush(t, fault) ==
    FlushBatch(
        FlushBatch(FlushBatch(t, "lines", fault = "flush"), "branches", FALSE),
        "functions", FALSE)

\* The Drop assertion of the three batches.
DropFlushed(t) ==
    t.lines.flushed /\ t.branches.flushed /\ t.functions.flushed

\* The result of insert_coverage_tx when it ends in state t.
TxResult(t, ok, err, report_id) ==
    [ok |-> ok, err |-> err, store |-> t.store, report_id |-> report_id,
     drop_flushed |-> DropFlushed(t)]

\* After the final flushes.
AfterFlush(t, report_id) ==
    IF t.ok THEN TxResult(t, TRUE, "", report_id)
    ELSE TxResult(t, FALSE, "flush failed", 0)

\* After with_files returned.  fault = "parser": the producer returns an
\* error after it has emitted files (the files it found before the malformed
\* input).
AfterEmit(t, report_id, fault) ==
    IF ~t.ok THEN TxResult(t, FALSE, "flush failed", 0)
    ELSE IF fault = "parser" THEN TxResult(t, FALSE, "parse error", 0)
    ELSE AfterFlush(FinalFlush(t, fault), report_id)

\* After the INSERT INTO report returned r.
AfterInsertReport(s, r, files, fault) ==
    IF ~r.ok
    THEN [ok |-> FALSE, err |-> "already exists", store |-> s,
          report_id |-> 0, drop_flushed |-> TRUE]
    ELSE AfterEmit(
            EmitAll([ok |-> TRUE, store |-> r.store, cache |-> << >>,
                     lines |-> BatchInsertNew("line_coverage", 4),
                     branches |-> BatchInsertNew("branch_coverage", 5),
                     functions |-> BatchInsertNew("function_coverage", 6)],
                    r.report_id, files, fault),
            r.report_id, fault)

insert_coverage_tx(s, name, files, fault) ==
    AfterInsertReport(s, InsertReport(s, name), files, fault)

(***************************************************************************)
(* rusqlite::Transaction over the connection's committed store: the        *)
(* statements of a transaction act on its working copy, commit() makes the *)
(* working copy the committed store, and a Transaction dropped without     *)
(* commit() is rolled back.                                                *)
(***************************************************************************)
TransactionBegin(s) == [base |-> s, work |-> s]

TransactionCommit(tx) == tx.work

TransactionDropKeepsWork(tx) == tx.work

TransactionDrop(tx) == tx.base

(***************************************************************************)
(* src/db.rs: insert_coverage_streaming.  The result's store is the        *)
(* committed store after the call.                                         *)
(***************************************************************************)
\* After insert_coverage_tx returned r in transaction tx: the purge of
\* orphans when overwriting and the commit, or the `?` return that drops tx.
AfterInsertCoverageTx(tx, overwrite, r) ==
    IF r.ok
    THEN [ok |-> TRUE, err |-> "",
          store |-> TransactionCommit(
                        [tx EXCEPT !.work = IF overwrite
                                            THEN PurgeOrphanFiles(r.store)
                                            ELSE r.store]),
          report_id |-> r.report_id]
    ELSE [ok |-> FALSE, err |-> r.err,
          store |-> TransactionDrop([tx EXCEPT !.work = r.store]),
          report_id |-> 0]

\* In transaction tx, after the DELETE of an overwrite.
InTransaction(tx, name, overwrite, files, fault) ==
    AfterInsertCoverageTx(tx, overwrite,
                          insert_coverage_tx(tx.work, name, files, fault))

insert_coverage_streaming(s, name, overwrite, files, fault) ==
    InTransaction(
        IF overwrite
        THEN [TransactionBegin(s) EXCEPT !.work = DeleteReportWhereName(@, name)]
        ELSE TransactionBegin(s),
        name, overwrite, files, fault)

\* insert_coverage: the producer emits data.files in order and cannot fail.
insert_coverage(s, name, data, overwrite) ==
    insert_coverage_streaming(s, name, overwrite, data, "none")

\* src/ingest.rs: ingest.  detected: a parser was found for the file.
ingest(s, detected, name, overwrite, files, fault) ==
    IF ~detected
    THEN [ok |-> FALSE, err |-> "Unknown coverage format", store |-> s,
          report_id |-> 0]
    ELSE insert_coverage_streaming(s, name, overwrite, files, fault)

\* delete_report(name): fails for an unknown name; otherwise deletes the
\* report (its coverage rows cascade) and purges orphaned source files.
delete_report(s, name) ==
    IF ~\E r \in s.report : r.name = name
    THEN [ok |-> FALSE, err |-> "not found", store |-> s]
    ELSE [ok |-> TRUE, err |-> "",
          store |-> PurgeOrphanFiles(DeleteReportWhereName(s, name))]

(***************************************************************************)
(* src/db.rs: the query helpers.  A SQL result is modelled as the set of   *)
(* its rows, each row keeping the columns that make it distinct (a table   *)
(* row its primary key, a GROUP BY row its group), so that COUNT is the    *)
(* cardinality of the set.                                                 *)
(***************************************************************************)
needs_union_above_two(s) == Cardinality(s.report) > 2

needs_union(s) == Cardinality(s.report) > 1

\* SELECT ..., MAX(hit_count) FROM line_coverage GROUP BY source_file_id,
\* line_number
LineGroups(rows) ==
    { [source_file_id |-> x.source_file_id, line_number |-> x.line_number,
       hit_count |-> SetMax({ y.hit_count : y \in
            { z \in rows : z.source_file_id = x.source_file_id
                            /\ z.line_number = x.line_number } })] :
      x \in rows }

\* ... FROM branch_coverage GROUP BY source_file_id, line_number, branch_index
BranchGroups(rows) ==
    { [source_file_id |-> x.source_file_id, line_number |-> x.line_number,
       branch_index |-> x.branch_index,
       hit_count |-> SetMax({ y.hit_count : y \in
            { z \in rows : z.source_file_id = x.source_file_id
                            /\ z.line_number = x.line_number
                            /\ z.branch_index = x.branch_index } })] :
      x \in rows }

\* ... FROM function_coverage GROUP BY source_file_id, name,
\* COALESCE(start_line, -1)
FunctionGroups(rows) ==
    { [source_file_id |-> x.source_file_id, name |-> x.name,
       start_line |-> x.start_line,
       hit_count |-> SetMax({ y.hit_count : y \in
            { z \in rows : z.source_file_id = x.source_file_id
                            /\ z.name = x.name
                            /\ z.start_line = x.start_line } })] :
      x \in rows }

\* union_source: the raw table, or the MAX(hit_count) subquery over it.
union_source(union, kind, s) ==
    CASE kind = "Line" ->
            IF union THEN LineGroups(s.line_coverage) ELSE s.line_coverage
      [] kind = "Branch" ->
            IF union THEN BranchGroups(s.branch_coverage)
            ELSE s.branch_coverage
      [] kind = "Function" ->
            IF union THEN FunctionGroups(s.function_coverage)
            ELSE s.function_coverage

CountHit(rows) == Cardinality({ x \in rows : x.hit_count > 0 })

\* String::cmp on the paths of the model.
PathOrder == << "a", "b" >>

PathRank(p) == CHOOSE i \in DOMAIN PathOrder : PathOrder[i] = p

\* The paths of ps in ascending order.
SortedPaths(ps) ==
    LET ranks == SortedSeq({ PathRank(p) : p \in ps })
    IN [i \in DOMAIN ranks |-> PathOrder[ranks[i]]]

\* Vec::sort of a list of line numbers (duplicates kept).
RECURSIVE SortLines(_)
SortLines(q) ==
    IF q = << >> THEN << >>
    ELSE LET m == SetMin(Range(q))
             i == CHOOSE j \in DOMAIN q : q[j] = m
         IN << m >> \o SortLines(SubSeq(q, 1, i - 1) \o SubSeq(q, i + 1, Len(q)))

\* The rows of a statement ORDER BY line_number, as (line_number, hit_count)
\* records; rows of one line number are listed by report id.
RECURSIVE OrderByLine(_)
OrderByLine(rows) ==
    IF rows = {} THEN << >>
    ELSE LET m == CHOOSE x \in rows : \A y \in rows :
                      \/ x.line_number < y.line_number
                      \/ /\ x.line_number = y.line_number
                         /\ x.report_id <= y.report_id
         IN << [line_number |-> m.line_number, hit_count |-> m.hit_count] >>
                \o OrderByLine(rows \ {m})

get_summary(s) ==
    LET union == Cardinality(s.report) > 1
        line_src == union_source(union, "Line", s)
        branch_src == union_source(union, "Branch", s)
        function_src == union_source(union, "Function", s)
    IN IF Cardinality(s.report) = 0
       THEN [ok |-> FALSE]
       ELSE [ok |-> TRUE,
             total_files |-> Cardinality({ x.source_file_id : x \in line_src }),
             total_lines |-> Cardinality(line_src),
             covered_lines |-> CountHit(line_src),
             total_branches |-> Cardinality(branch_src),
             covered_branches |-> CountHit(branch_src),
             total_functions |-> Cardinality(function_src),
             covered_functions |-> CountHit(function_src)]

get_file_summaries(s) ==
    LET union == needs_union(s)
        line_src == union_source(union, "Line", s)
        branch_src == union_source(union, "Branch", s)
        \* FROM line_src lc JOIN source_file sf ON sf.id = lc.source_file_id
        joined == { sf \in s.source_file :
                      \E lc \in line_src : lc.source_file_id = sf.id }
        paths == SortedPaths({ sf.path : sf \in joined })
        summary(path) ==
            LET ids == { sf.id : sf \in { x \in joined : x.path = path } }
                lc == { x \in line_src : x.source_file_id \in ids }
                bc == { x \in branch_src : x.source_file_id \in ids }
            IN [path |-> path,
                total_lines |-> Cardinality(lc),
                covered_lines |-> CountHit(lc),
                total_branches |-> Cardinality(bc),
                covered_branches |-> CountHit(bc)]
    IN [i \in DOMAIN paths |-> summary(paths[i])]

\* The rate is kept as the pair covered/total.  SUM over no row is NULL,
\* which row.get::<u64> refuses: the call then returns the error.
get_file_line_rate(s, path) ==
    LET union == needs_union(s)
        line_src == union_source(union, "Line", s)
        ids == { sf.id : sf \in { x \in s.source_file : x.path = path } }
        lc == { x \in line_src : x.source_file_id \in ids }
    IN IF lc = {}
       THEN [ok |-> FALSE, some |-> FALSE, covered |-> 0, total |-> 0]
       ELSE [ok |-> TRUE, some |-> TRUE, covered |-> CountHit(lc),
             total |-> Cardinality(lc)]

get_lines(s, source_path) ==
    LET found == { sf \in s.source_file : sf.path = source_path }
        source_file_id == (CHOOSE sf \in found : TRUE).id
        rows == { x \in s.line_coverage : x.source_file_id = source_file_id }
        grouped == { [report_id |-> 0, line_number |-> g.line_number,
                      hit_count |-> g.hit_count] : g \in LineGroups(rows) }
    IN IF found = {}
       THEN [ok |-> FALSE, lines |-> << >>]
       ELSE [ok |-> TRUE,
             lines |-> IF needs_union(s) THEN OrderByLine(grouped)
                       ELSE OrderByLine(rows)]

\* lines.chunks(BATCH_SIZE)
RECURSIVE Chunks(_, _)
Chunks(q, n) ==
    IF Len(q) <= n THEN (IF q = << >> THEN << >> ELSE << q >>)
    ELSE << SubSeq(q, 1, n) >> \o Chunks(SubSeq(q, n + 1, Len(q)), n)

\* One chunk's statement of diff_coverage: the (line_number, hit_count) rows
\* it returns, in line order.
ChunkRows(s, union, file_id, chunk) ==
    LET rows == { x \in s.line_coverage :
                    /\ x.source_file_id = file_id
                    /\ x.line_number \in Range(chunk) }
        grouped == { [report_id |-> 0, line_number |-> g.line_number,
                      hit_count |-> g.hit_count] : g \in LineGroups(rows) }
    IN IF union THEN OrderByLine(grouped) ELSE OrderByLine(rows)

RECURSIVE Concat(_)
Concat(qs) == IF qs = << >> THEN << >> ELSE Head(qs) \o Concat(Tail(qs))

\* The body of the loop of diff_coverage for one path of the diff.
DiffFile(s, union, path, lines) ==
    LET found == { sf \in s.source_file : sf.path = path }
        file_id == (CHOOSE sf \in found : TRUE).id
        chunks == Chunks(lines, BATCH_SIZE)
        rows == Concat([i \in DOMAIN chunks |->
                           ChunkRows(s, union, file_id, chunks[i])])
        covered == SelectSeq(rows, LAMBDA r : r.hit_count > 0)
        missed == SelectSeq(rows, LAMBDA r : ~(r.hit_count > 0))
    IN IF found = {} \/ lines = << >> \/ rows = << >>
       THEN [emitted |-> FALSE, path |-> path, covered_lines |-> << >>,
             missed_lines |-> << >>]
       ELSE [emitted |-> TRUE, path |-> path,
             covered_lines |->
                 SortLines([i \in DOMAIN covered |-> covered[i].line_number]),
             missed_lines |->
                 SortLines([i \in DOMAIN missed |-> missed[i].line_number])]

RECURSIVE SumLen(_, _)
SumLen(files, field) ==
    IF files = << >> THEN 0
    ELSE Len(Head(files)[field]) + SumLen(Tail(files), field)

\* diff_lines: a function from the paths of the diff to their line lists.
diff_coverage(s, diff_lines) ==
    LET union == needs_union(s)
        hit == { p \in DOMAIN diff_lines :
                   DiffFile(s, union, p, diff_lines[p]).emitted }
        paths == SortedPaths(hit)
        results == [i \in DOMAIN paths |->
                       LET d == DiffFile(s, union, paths[i],
                                         diff_lines[paths[i]])
                       IN [path |-> d.path, covered_lines |-> d.covered_lines,
                           missed_lines |-> d.missed_lines]]
    IN [files |-> results,
        total_covered |-> SumLen(results, "covered_lines"),
        total_instrumentable |->
            SumLen(results, "covered_lines") + SumLen(results, "missed_lines")]

(***************************************************************************)
(* src/diff.rs: parse_diff.  A line of text is the sequence of its         *)
(* characters; the text is the sequence of its lines.                      *)
(***************************************************************************)
\* str::starts_with
StartsWith(line, prefix) ==
    /\ Len(line) >= Len(prefix)
    /\ SubSeq(line, 1, Len(prefix)) = prefix

\* str::strip_prefix: the rest of the line after prefix; the caller tests
\* StartsWith first.
StripPrefix(line, prefix) == SubSeq(line, Len(prefix) + 1, Len(line))

\* str::split(sep), sep one character: the parts between the separators.
RECURSIVE Split(_, _)
Split(line, sep) ==
    IF \A i \in DOMAIN line : line[i] # sep THEN << line >>
    ELSE LET k == SetMin({ i \in DOMAIN line : line[i] = sep })
         IN << SubSeq(line, 1, k - 1) >>
                \o Split(SubSeq(line, k + 1, Len(line)), sep)

DigitChars == << "0", "1", "2", "3", "4", "5", "6", "7", "8", "9" >>

IsDigit(c) == \E i \in DOMAIN DigitChars : DigitChars[i] = c

DigitValue(c) == (CHOOSE i \in DOMAIN DigitChars : DigitChars[i] = c) - 1

RECURSIVE DecimalValue(_)
DecimalValue(digits) ==
    IF digits = << >> THEN 0
    ELSE DecimalValue(SubSeq(digits, 1, Len(digits) - 1)) * 10
            + DigitValue(digits[Len(digits)])

\* str::parse::<u32>: an optional '+', then one or more digits.  The texts
\* of the model keep their numbers below ten digits, where every value is
\* within u32; the operator is not defined beyond.
ParseU32(str) ==
    LET digits == IF StartsWith(str, << "+" >>) THEN StripPrefix(str, << "+" >>)
                  ELSE str
    IN IF digits = << >> \/ \E i \in DOMAIN digits : ~IsDigit(digits[i])
       THEN [some |-> FALSE, value |-> 0]
       ELSE CASE Len(digits) < 10 ->
                [some |-> TRUE, value |-> DecimalValue(digits)]

\* parse_hunk_header: the new-file start line of "@@ -a,b +c,d @@".
parse_hunk_header(line) ==
    LET none == [some |-> FALSE, value |-> 0]
        after_at == StripPrefix(line, << "@", "@", " " >>)
        parts == Split(after_at, " ")
        new_part == StripPrefix(parts[2], << "+" >>)
        start_str == Head(Split(new_part, ","))
    IN IF ~StartsWith(line, << "@", "@", " " >>) THEN none
       ELSE IF Len(parts) < 2 THEN none
       ELSE IF ~StartsWith(parts[2], << "+" >>) THEN none
       ELSE ParseU32(start_str)

DevNull == << "/", "d", "e", "v", "/", "n", "u", "l", "l" >>

\* current_file: Option<String>
NoFile == [some |-> FALSE, value |-> << >>]

\* result.entry(file).or_default().push(n)
PushLine(res, file, n) ==
    [f \in DOMAIN res \cup {file} |->
        IF f = file
        THEN (IF file \in DOMAIN res THEN Append(res[file], n) ELSE << n >>)
        ELSE res[f]]

\* One iteration of the loop of parse_diff over the lines of the text.
\* st: the locals result, current_file and new_line_number.
parse_line(st, line) ==
    LET header == << "+", "+", "+", " " >>
        rest == StripPrefix(line, header)
        path == IF StartsWith(rest, << "b", "/" >>)
                THEN StripPrefix(rest, << "b", "/" >>)
                ELSE IF StartsWith(rest, << "a", "/" >>)
                THEN StripPrefix(rest, << "a", "/" >>)
                ELSE rest
        new_range == parse_hunk_header(line)
    IN IF StartsWith(line, header)
       THEN [st EXCEPT !.current_file =
                IF rest = DevNull THEN NoFile
                ELSE [some |-> TRUE, value |-> path]]
       ELSE IF StartsWith(line, << "@", "@", " " >>)
       THEN (IF new_range.some
             THEN [st EXCEPT !.new_line_number = new_range.value]
             ELSE st)
       ELSE IF ~st.current_file.some THEN st
       ELSE IF StartsWith(line, << "\\" >>) THEN st
       ELSE IF StartsWith(line, << "+" >>)
                /\ ~StartsWith(line, << "+", "+", "+" >>)
       THEN [st EXCEPT
                !.result = PushLine(@, st.current_file.value,
                                    st.new_line_number),
                !.new_line_number = @ + 1]
       ELSE IF StartsWith(line, << "-" >>)
                /\ ~StartsWith(line, << "-", "-", "-" >>)
       THEN st
       ELSE [st EXCEPT !.new_line_number = @ + 1]

RECURSIVE parse_lines(_, _)
parse_lines(st, text) ==
    IF text = << >> THEN st
    ELSE parse_lines(parse_line(st, Head(text)), Tail(text))

\* parse_diff: the map it returns for the text.
parse_diff(diff_text) ==
    parse_lines([result |-> << >>, current_file |-> NoFile,
                 new_line_number |-> 0], diff_text).result

(***************************************************************************)
(* The state machine: the calls a client makes on one connection.          *)
(*   db   the committed store                                              *)
(***************************************************************************)
Faults == {"none", "parser", "flush"}

\* The unified diffs fed to parse_diff: file headers and hunks.
DiffPaths == { << "f" >>, << "g" >> }

Targets == DiffPaths \cup {DevNull}

\* The text of an added, removed or context line.
Contents ==
    { << "x" >>, << "-", "-", " ", "x" >>, << "+", "+", " ", "x" >> }

NoNewline == << " ", "N", "o", " ", "n", "e", "w", "l", "i", "n", "e" >>

BodyLines ==
    [marker : {"+", "-", " "}, content : Contents]
        \cup {[marker |-> "\\", content |-> NoNewline]}

Bodies == UNION { [1..k -> BodyLines] : k \in 1..MaxBody }

FileElem(target) ==
    [kind |-> "file", target |-> target, new_start |-> 0, body |-> << >>]

HunkElem(new_start, body) ==
    [kind |-> "hunk", target |-> << >>, new_start |-> new_start,
     body |-> body]

RECURSIVE Decimal(_)
Decimal(n) ==
    IF n < 10 THEN << DigitChars[n + 1] >>
    ELSE Decimal(n \div 10) \o << DigitChars[(n % 10) + 1] >>

CountMarkers(body, markers) ==
    Cardinality({ i \in DOMAIN body : body[i].marker \in markers })

\* The lines of text of one element of a diff.
RenderElem(e) ==
    IF e.kind = "file"
    THEN << << "-", "-", "-", " ", "a", "/" >> \o
              (IF e.target = DevNull THEN << "f" >> ELSE e.target),
            << "+", "+", "+", " " >> \o
              (IF e.target = DevNull THEN DevNull
               ELSE << "b", "/" >> \o e.target) >>
    ELSE << << "@", "@", " ", "-", "1", "," >>
              \o Decimal(CountMarkers(e.body, {"-", " "}))
              \o << " ", "+" >> \o Decimal(e.new_start) \o << "," >>
              \o Decimal(CountMarkers(e.body, {"+", " "}))
              \o << " ", "@", "@" >> >>
         \o [i \in DOMAIN e.body |->
                << e.body[i].marker >> \o e.body[i].content]

(***************************************************************************)
(* src/parsers/lcov.rs: parse_streaming_reader.  A line of the input is    *)
(* the sequence of its characters.                                         *)
(***************************************************************************)
MaxLcovLines == 4

\* str::trim on the blanks of a line.
RECURSIVE Trim(_)
Trim(line) ==
    IF line = << >> THEN line
    ELSE IF Head(line) = " " THEN Trim(Tail(line))
    ELSE IF line[Len(line)] = " " THEN Trim(SubSeq(line, 1, Len(line) - 1))
    ELSE line

\* str::split_once(sep): the text before and after the first separator.
split_once(str, sep) ==
    IF \A i \in DOMAIN str : str[i] # sep
    THEN [some |-> FALSE, left |-> << >>, right |-> << >>]
    ELSE [some |-> TRUE,
          left |-> SubSeq(str, 1, SetMin({ i \in DOMAIN str : str[i] = sep }) - 1),
          right |-> SubSeq(str, SetMin({ i \in DOMAIN str : str[i] = sep }) + 1,
                           Len(str))]

\* str::splitn(n, sep): at most n parts, the last one the rest of the text.
RECURSIVE splitn(_, _, _)
splitn(str, n, sep) ==
    IF n <= 1 \/ ~split_once(str, sep).some THEN << str >>
    ELSE << split_once(str, sep).left >>
            \o splitn(split_once(str, sep).right, n - 1, sep)

\* str::parse::<u64>: as parse::<u32> on the numbers of the model.
ParseU64(str) == ParseU32(str)

\* str::parse::<i64>: an optional sign, then one or more digits.
ParseI64(str) ==
    IF StartsWith(str, << "-" >>)
    THEN IF ParseU32(StripPrefix(str, << "-" >>)).some
            /\ ~StartsWith(StripPrefix(str, << "-" >>), << "+" >>)
         THEN [some |-> TRUE,
               value |-> 0 - ParseU32(StripPrefix(str, << "-" >>)).value]
         ELSE [some |-> FALSE, value |-> 0]
    ELSE ParseU32(str)

\* Result::unwrap_or(0)
unwrap_or_0(parsed) == IF parsed.some THEN parsed.value ELSE 0

\* FileCoverage::new
NewFileCoverage(path) ==
    [path |-> path, lines |-> << >>, branches |-> << >>, functions |-> << >>]

NoFileCoverage == [some |-> FALSE, value |-> NewFileCoverage(<< >>)]

SomeFileCoverage(file) == [some |-> TRUE, value |-> file]

\* HashMap::get on a map kept as a function.
MapGet(map, key, default) == IF key \in DOMAIN map THEN map[key] ELSE default

MapInsert(map, key, value) ==
    [k \in DOMAIN map \cup {key} |-> IF k = key THEN value ELSE map[k]]

EmptyMap == [k \in {} |-> 0]

\* The locals of parse_streaming_reader before the first line; text holds the
\* lines read so far and emitted the files handed to emit.
LcovStart ==
    [text |-> << >>, current_file |-> NoFileCoverage,
     branch_indices |-> EmptyMap, fn_defs |-> EmptyMap,
     emitted |-> << >>, eof |-> FALSE]

\* if let Some(file) = current_file.take() { emit(file)?; }
TakeAndEmit(st) ==
    [st EXCEPT !.current_file = NoFileCoverage,
               !.emitted = IF st.current_file.some
                           THEN Append(st.emitted, st.current_file.value)
                           ELSE st.emitted]

ClearMaps(st) == [st EXCEPT !.branch_indices = EmptyMap, !.fn_defs = EmptyMap]

\* "SF" => current_file = Some(FileCoverage::new(value))
LcovSF(st, value) ==
    ClearMaps([st EXCEPT
                  !.current_file = SomeFileCoverage(NewFileCoverage(value))])

\* "FN" => fn_defs.insert(name, Some(start_line))
LcovFN(st, value) ==
    IF split_once(value, ",").some /\ ParseU32(split_once(value, ",").left).some
    THEN [st EXCEPT !.fn_defs =
             MapInsert(st.fn_defs, split_once(value, ",").right,
                       ParseU32(split_once(value, ",").left).value)]
    ELSE st

\* "FNDA" => file.functions.push(..)
LcovFNDA(st, value) ==
    IF st.current_file.some /\ split_once(value, ",").some
    THEN [st EXCEPT !.current_file.value.functions =
             Append(@, [name |-> split_once(value, ",").right,
                        start_line |-> MapGet(st.fn_defs,
                                              split_once(value, ",").right, None),
                        end_line |-> None,
                        hit_count |->
                            unwrap_or_0(ParseU64(split_once(value, ",").left))])]
    ELSE st

\* Ok(count) if count >= 0
LcovCountAccepted(count) == count.some /\ count.value >= 0

\* "DA" => file.lines.push(..)
LcovDA(st, parts) ==
    IF /\ st.current_file.some
       /\ Len(parts) >= 2
       /\ ParseU32(parts[1]).some
       /\ LcovCountAccepted(ParseI64(parts[2]))
    THEN [st EXCEPT !.current_file.value.lines =
             Append(@, [line_number |-> ParseU32(parts[1]).value,
                        hit_count |-> ParseI64(parts[2]).value])]
    ELSE st

\* The mutant of LcovNextIndex: every branch of a line gets index 0.
LcovFirstIndex(branch_indices, line_number) == 0

\* *branch_indices.entry(line_number).or_insert(0)
LcovNextIndex(branch_indices, line_number) ==
    MapGet(branch_indices, line_number, 0)

\* "BRDA" => file.branches.push(..); *idx += 1
LcovBRDA(st, parts) ==
    IF st.current_file.some /\ Len(parts) = 4 /\ ParseU32(parts[1]).some
    THEN [st EXCEPT
             !.current_file.value.branches =
                 Append(@, [line_number |-> ParseU32(parts[1]).value,
                            branch_index |->
                                LcovNextIndex(st.branch_indices,
                                              ParseU32(parts[1]).value),
                            hit_count |->
                                IF parts[4] = << "-" >> THEN 0
                                ELSE unwrap_or_0(ParseU64(parts[4]))]),
             !.branch_indices =
                 MapInsert(@, ParseU32(parts[1]).value,
                           MapGet(@, ParseU32(parts[1]).value, 0) + 1)]
    ELSE st

\* match tag { .. }
LcovTag(st, tag, value) ==
    CASE tag = << "S", "F" >> -> LcovSF(st, value)
      [] tag = << "F", "N" >> -> LcovFN(st, value)
      [] tag = << "F", "N", "D", "A" >> -> LcovFNDA(st, value)
      [] tag = << "D", "A" >> -> LcovDA(st, splitn(value, 3, ","))
      [] tag = << "B", "R", "D", "A" >> -> LcovBRDA(st, splitn(value, 4, ","))
      [] OTHER -> st

\* The body of the loop for one line that was read.
LcovLine(st, line) ==
    IF line = << >> THEN st
    ELSE IF line = << "e", "n", "d", "_", "o", "f", "_", "r", "e", "c", "o", "r", "d" >> THEN ClearMaps(TakeAndEmit(st))
    ELSE IF ~split_once(line, ":").some THEN st
    ELSE LcovTag(st, split_once(line, ":").left, split_once(line, ":").right)

\* The lines an input of the model is made of.
LcovAlphabet ==
    { << "S", "F", ":", "a" >>,
      << "S", "F", ":", "b" >>,
      << "e", "n", "d", "_", "o", "f", "_", "r", "e", "c", "o", "r", "d" >>,
      << "D", "A", ":", "1", ",", "1" >>,
      << "D", "A", ":", "2", ",", "0" >>,
      << "D", "A", ":", "0", ",", "1" >>,
      << "D", "A", ":", "1", ",", "-", "1" >>,
      << "D", "A", ":", "x", ",", "1" >>,
      << "B", "R", "D", "A", ":", "1", ",", "0", ",", "0", ",", "1" >>,
      << "B", "R", "D", "A", ":", "1", ",", "0", ",", "1", ",", "-" >>,
      << "F", "N", ":", "1", ",", "f" >>,
      << "F", "N", "D", "A", ":", "1", ",", "f" >> }

(***************************************************************************)
(* src/parsers/cobertura.rs: parse.  The input is the sequence of the      *)
(* events the XML reader returns for it; the value of an attribute and a   *)
(* text are sequences of characters.                                       *)
(***************************************************************************)
MaxXmlEvents == 4

XmlEvent(kind, name, attrs) == [kind |-> kind, name |-> name, attrs |-> attrs]

NoAttr == [some |-> FALSE, value |-> << >>]

\* get_attr and the loops over e.attributes(): the value of the attribute.
get_attr(e, name) ==
    IF name \in DOMAIN e.attrs THEN [some |-> TRUE, value |-> e.attrs[name]]
    ELSE NoAttr

\* attr.and_then(|v| v.parse().ok())
ParseAttr(attr) == IF attr.some THEN ParseU32(attr.value) ELSE [some |-> FALSE, value |-> 0]

\* Vec::sort_by_key(|l| l.line_number), a stable sort: x goes behind the
\* elements whose key is not greater.
InsertByKey(sorted, x) ==
    SubSeq(sorted, 1, Cardinality({ i \in DOMAIN sorted :
                                      sorted[i].line_number <= x.line_number }))
      \o << x >>
      \o SubSeq(sorted, Cardinality({ i \in DOMAIN sorted :
                                        sorted[i].line_number <= x.line_number }) + 1,
                Len(sorted))

RECURSIVE sort_by_key(_)
sort_by_key(lines) ==
    IF lines = << >> THEN << >>
    ELSE InsertByKey(sort_by_key(SubSeq(lines, 1, Len(lines) - 1)),
                     lines[Len(lines)])

\* The matches of BRANCH_RE, \((\d+)/(\d+)\), in a text: the positions of the
\* parenthesis, the slash and the closing parenthesis.
AllDigits(str, from, to) ==
    from <= to /\ \A i \in from..to : IsDigit(str[i])

PositionsOf(str, c) == { i \in DOMAIN str : str[i] = c }

BranchReMatches(cond) ==
    { m \in PositionsOf(cond, "(") \X PositionsOf(cond, "/")
               \X PositionsOf(cond, ")") :
        /\ AllDigits(cond, m[1] + 1, m[2] - 1)
        /\ AllDigits(cond, m[2] + 1, m[3] - 1) }

\* branch_re.captures(cond): the two numbers of the leftmost match.
BranchReCaptures(cond) ==
    IF BranchReMatches(cond) = {}
    THEN [some |-> FALSE, covered |-> 0, total |-> 0]
    ELSE LET m == CHOOSE m \in BranchReMatches(cond) :
                     \A o \in BranchReMatches(cond) : m[1] <= o[1]
         IN [some |-> TRUE,
             covered |-> unwrap_or_0(ParseU32(SubSeq(cond, m[1] + 1, m[2] - 1))),
             total |-> unwrap_or_0(ParseU32(SubSeq(cond, m[2] + 1, m[3] - 1)))]

\* str::trim_end_matches('/')
RECURSIVE TrimEndSlashes(_)
TrimEndSlashes(str) ==
    IF str # << >> /\ str[Len(str)] = "/"
    THEN TrimEndSlashes(SubSeq(str, 1, Len(str) - 1))
    ELSE str

resolve_source_path(filename, sources) ==
    IF StartsWith(filename, << "/" >>) THEN filename
    ELSE IF \A i \in DOMAIN sources : TrimEndSlashes(sources[i]) = << >>
         THEN filename
         ELSE TrimEndSlashes(sources[SetMin({ i \in DOMAIN sources :
                                 TrimEndSlashes(sources[i]) # << >> })])
                 \o << "/" >> \o filename

\* The locals of parse before the first event.
CoberturaStart ==
    [files |-> << >>, current_file |-> NoFileCoverage,
     in_method |-> FALSE, current_method_name |-> NoAttr,
     method_hit |-> FALSE, method_start_line |-> None,
     branch_indices |-> EmptyMap, line_index_map |-> EmptyMap,
     sources |-> << >>, in_source |-> FALSE]

\* b"class" => current_file = Some(FileCoverage::new(path))
CoberturaClass(st, e) ==
    IF get_attr(e, "filename").some
    THEN [st EXCEPT
             !.current_file =
                 SomeFileCoverage(NewFileCoverage(
                     resolve_source_path(get_attr(e, "filename").value,
                                         st.sources))),
             !.branch_indices = EmptyMap,
             !.line_index_map = EmptyMap]
    ELSE st

\* b"method" => in_method = true
CoberturaMethod(st, e) ==
    [st EXCEPT !.in_method = TRUE,
               !.current_method_name = get_attr(e, "name"),
               !.method_hit = FALSE,
               !.method_start_line = None]

\* Line coverage: one entry for a line number, with the greatest of its hits.
CoberturaCollectLine(st, line_number, hit_count) ==
    IF line_number \in DOMAIN st.line_index_map
    THEN IF hit_count > st.current_file.value.lines[st.line_index_map[line_number]].hit_count
         THEN [st EXCEPT !.current_file.value.lines[st.line_index_map[line_number]].hit_count
                             = hit_count]
         ELSE st
    ELSE [st EXCEPT
             !.line_index_map =
                 MapInsert(@, line_number, Len(st.current_file.value.lines) + 1),
             !.current_file.value.lines =
                 Append(@, [line_number |-> line_number, hit_count |-> hit_count])]

\* Track method start line and hit status.
CoberturaTrackMethod(st, line_number, hit_count) ==
    IF st.in_method
    THEN [st EXCEPT
             !.method_start_line = IF @ = None THEN line_number ELSE @,
             !.method_hit = @ \/ hit_count > 0]
    ELSE st

\* for i in 0..total { file.branches.push(..); *idx += 1 }
CoberturaArms(line_number, covered, total) ==
    [i \in 1..total |->
        [line_number |-> line_number, branch_index |-> i - 1,
         hit_count |-> IF i - 1 < covered THEN 1 ELSE 0]]

\* The mutant of CoberturaBranches: the arms of every encounter are recorded.
CoberturaBranchesEveryEncounter(st, line_number, is_branch, cond_cov) ==
    IF /\ is_branch
       /\ cond_cov.some
       /\ BranchReCaptures(cond_cov.value).some
       /\ BranchReCaptures(cond_cov.value).total > 0
    THEN [st EXCEPT
             !.current_file.value.branches =
                 @ \o CoberturaArms(line_number,
                                    BranchReCaptures(cond_cov.value).covered,
                                    BranchReCaptures(cond_cov.value).total)]
    ELSE st

\* Branch coverage, on the first encounter of the line only.
CoberturaBranches(st, line_number, is_branch, cond_cov) ==
    IF /\ is_branch
       /\ line_number \notin DOMAIN st.branch_indices
       /\ cond_cov.some
       /\ BranchReCaptures(cond_cov.value).some
       /\ BranchReCaptures(cond_cov.value).total > 0
    THEN [st EXCEPT
             !.current_file.value.branches =
                 @ \o CoberturaArms(line_number,
                                    BranchReCaptures(cond_cov.value).covered,
                                    BranchReCaptures(cond_cov.value).total),
             !.branch_indices =
                 MapInsert(@, line_number, BranchReCaptures(cond_cov.value).total)]
    ELSE st

\* b"line" => ..
CoberturaLineElem(st, e) ==
    IF st.current_file.some /\ ParseAttr(get_attr(e, "number")).some
    THEN CoberturaBranches(
             CoberturaTrackMethod(
                 CoberturaCollectLine(st, ParseAttr(get_attr(e, "number")).value,
                                      unwrap_or_0(ParseAttr(get_attr(e, "hits")))),
                 ParseAttr(get_attr(e, "number")).value,
                 unwrap_or_0(ParseAttr(get_attr(e, "hits")))),
             ParseAttr(get_attr(e, "number")).value,
             get_attr(e, "branch") = [some |-> TRUE, value |-> << "t", "r", "u", "e" >>],
             get_attr(e, "condition-coverage"))
    ELSE st

\* Event::End of b"method"
CoberturaMethodEnd(st) ==
    IF st.in_method
    THEN [st EXCEPT
             !.current_file.value.functions =
                 IF st.current_file.some /\ st.current_method_name.some
                 THEN Append(@, [name |-> st.current_method_name.value,
                                 start_line |-> st.method_start_line,
                                 end_line |-> None,
                                 hit_count |-> IF st.method_hit THEN 1 ELSE 0])
                 ELSE @,
             !.current_method_name = NoAttr,
             !.in_method = FALSE,
             !.method_start_line = None]
    ELSE st

\* if let Some(file) = current_file.take() { data.files.push(file); }
CoberturaTake(st) ==
    [st EXCEPT !.current_file = NoFileCoverage,
               !.files = IF st.current_file.some
                         THEN Append(@, st.current_file.value) ELSE @]

\* One turn of the loop of parse.
CoberturaEvent(st, e) ==
    CASE e.kind \in {"Start", "Empty"} /\ e.name = "source" ->
            [st EXCEPT !.in_source = @ \/ e.kind = "Start"]
      [] e.kind \in {"Start", "Empty"} /\ e.name = "class" -> CoberturaClass(st, e)
      [] e.kind \in {"Start", "Empty"} /\ e.name = "method" -> CoberturaMethod(st, e)
      [] e.kind \in {"Start", "Empty"} /\ e.name = "line" -> CoberturaLineElem(st, e)
      [] e.kind = "Text" ->
            [st EXCEPT !.sources = IF st.in_source THEN Append(@, e.attrs.text) ELSE @,
                       !.in_source = FALSE]
      [] e.kind = "End" /\ e.name = "source" -> [st EXCEPT !.in_source = FALSE]
      [] e.kind = "End" /\ e.name = "class" -> CoberturaTake(st)
      [] e.kind = "End" /\ e.name = "method" -> CoberturaMethodEnd(st)
      [] OTHER -> st

RECURSIVE CoberturaLoop(_, _)
CoberturaLoop(st, events) ==
    IF events = << >> THEN st
    ELSE CoberturaLoop(CoberturaEvent(st, Head(events)), Tail(events))

\* After the loop: the unclosed file, then the sort of the lines of each file.
CoberturaFinish(files) ==
    [i \in DOMAIN files |-> [files[i] EXCEPT !.lines = sort_by_key(@)]]

cobertura_parse(events) ==
    CoberturaFinish(CoberturaTake(CoberturaLoop(CoberturaStart, events)).files)

CoberturaLineEvents ==
    { XmlEvent("Empty", "line", [number |-> n, hits |-> h]) :
        n \in { << "1" >>, << "2" >> }, h \in { << "0" >>, << "2" >> } }
    \cup
    { XmlEvent("Empty", "line",
               [number |-> n, hits |-> << "2" >>, branch |-> << "t", "r", "u", "e" >>]
                   @@ ("condition-coverage" :> c)) :
        n \in { << "1" >>, << "2" >> }, c \in { << "5", "0", "%", " ", "(", "1", "/", "2", ")" >>, << "1", "0", "0", "%", " ", "(", "2", "/", "2", ")" >> } }

CoberturaEvents ==
    { XmlEvent("Start", "class", [filename |-> f]) : f \in { << "a" >>, << "b" >> } }
    \cup { XmlEvent("End", "class", << >>),
           XmlEvent("Start", "method", [name |-> << "m" >>]),
           XmlEvent("End", "method", << >>),
           XmlEvent("Start", "source", << >>),
           XmlEvent("Text", "", [text |-> << "/", "s", "/" >>]) }
    \cup CoberturaLineEvents

(***************************************************************************)
(* src/parsers/clover.rs: parse_streaming, on the events of the XML reader.*)
(***************************************************************************)
CloverStart ==
    [emitted |-> << >>, current_file |-> NoFileCoverage,
     branch_indices |-> EmptyMap]

\* b"file" => current_file = Some(FileCoverage::new(file_path))
CloverFile(st, e) ==
    [st EXCEPT
        !.current_file =
            SomeFileCoverage(NewFileCoverage(
                IF get_attr(e, "path").some THEN get_attr(e, "path").value
                ELSE get_attr(e, "name").value)),
        !.branch_indices = EmptyMap]

\* Method coverage of a line of type "method".
CloverMethodLine(st, e, line_number, count) ==
    IF get_attr(e, "type") = [some |-> TRUE, value |-> << "m", "e", "t", "h", "o", "d" >>]
    THEN [st EXCEPT !.current_file.value.functions =
             Append(@, [name |-> IF get_attr(e, "signature").some
                                 THEN get_attr(e, "signature").value
                                 ELSE << "<", "a", "n", "o", "n", "y", "m", "o", "u", "s", "@" >> \o Decimal(line_number)
                                         \o << ">" >>,
                        start_line |-> line_number,
                        end_line |-> None,
                        hit_count |-> count])]
    ELSE st

\* The arms of the conditions of a line: a true arm and a false arm for each
\* condition, numbered on from the index of the line.
CloverArms(line_number, idx, tc, fc) ==
    [j \in 1..(2 * (IF tc >= fc THEN tc ELSE fc)) |->
        [line_number |-> line_number,
         branch_index |-> idx + j - 1,
         hit_count |-> IF j % 2 = 1
                       THEN (IF (j - 1) \div 2 < tc THEN 1 ELSE 0)
                       ELSE (IF (j - 1) \div 2 < fc THEN 1 ELSE 0)]]

\* Branch coverage of a line of type "cond".
CloverCondLine(st, e, line_number) ==
    IF get_attr(e, "type") = [some |-> TRUE, value |-> << "c", "o", "n", "d" >>]
    THEN [st EXCEPT
             !.current_file.value.branches =
                 @ \o CloverArms(line_number,
                                 MapGet(st.branch_indices, line_number, 0),
                                 unwrap_or_0(ParseAttr(get_attr(e, "truecount"))),
                                 unwrap_or_0(ParseAttr(get_attr(e, "falsecount")))),
             !.branch_indices =
                 MapInsert(@, line_number,
                     MapGet(@, line_number, 0)
                       + Len(CloverArms(line_number, 0,
                                 unwrap_or_0(ParseAttr(get_attr(e, "truecount"))),
                                 unwrap_or_0(ParseAttr(get_attr(e, "falsecount"))))))]
    ELSE st

\* b"line" => ..
CloverLineElem(st, e) ==
    IF st.current_file.some /\ ParseAttr(get_attr(e, "num")).some
    THEN CloverCondLine(
             CloverMethodLine(
                 [st EXCEPT !.current_file.value.lines =
                     Append(@, [line_number |-> ParseAttr(get_attr(e, "num")).value,
                                hit_count |->
                                    unwrap_or_0(ParseAttr(get_attr(e, "count")))])],
                 e, ParseAttr(get_attr(e, "num")).value,
                 unwrap_or_0(ParseAttr(get_attr(e, "count")))),
             e, ParseAttr(get_attr(e, "num")).value)
    ELSE st

\* if let Some(mut file) = current_file.take() { sort; emit(file)?; }
CloverTakeAndEmit(st) ==
    [st EXCEPT !.current_file = NoFileCoverage,
               !.emitted = IF st.current_file.some
                           THEN Append(@, [st.current_file.value EXCEPT
                                              !.lines = sort_by_key(@)])
                           ELSE @]

\* One turn of the loop of parse_streaming.
CloverEvent(st, e) ==
    CASE e.kind \in {"Start", "Empty"} /\ e.name = "file" -> CloverFile(st, e)
      [] e.kind \in {"Start", "Empty"} /\ e.name = "line" -> CloverLineElem(st, e)
      [] e.kind = "End" /\ e.name = "file" -> CloverTakeAndEmit(st)
      [] OTHER -> st

RECURSIVE CloverLoop(_, _)
CloverLoop(st, events) ==
    IF events = << >> THEN st
    ELSE CloverLoop(CloverEvent(st, Head(events)), Tail(events))

clover_parse(events) ==
    CloverTakeAndEmit(CloverLoop(CloverStart, events)).emitted

CloverEvents ==
    { XmlEvent("Start", "file", [path |-> << "a" >>, name |-> << "b" >>]),
      XmlEvent("Start", "file", [name |-> << "b" >>]),
      XmlEvent("End", "file", << >>),
      XmlEvent("Empty", "line",
               [num |-> << "1" >>, count |-> << "2" >>, type |-> << "m", "e", "t", "h", "o", "d" >>]) }
    \cup
    { XmlEvent("Empty", "line", [num |-> n, count |-> c, type |-> << "s", "t", "m", "t" >>]) :
        n \in { << "1" >>, << "2" >> }, c \in { << "0" >>, << "2" >> } }
    \cup
    { XmlEvent("Empty", "line",
               [num |-> n, count |-> << "2" >>, type |-> << "c", "o", "n", "d" >>,
                truecount |-> t, falsecount |-> << "1" >>]) :
        n \in { << "1" >>, << "2" >> }, t \in { << "1" >>, << "2" >> } }


(***************************************************************************)
(* Format detection (parsers/mod.rs and the can_parse of every parser).    *)
(* The head of a file is the sequence of its lines; the inputs are shorter *)
(* than the 4096 bytes sniff_head keeps.                                   *)
(***************************************************************************)
MaxHeadLines == 2

\* str::contains on one line
Contains(line, pat) ==
    \E i \in 1..(Len(line) - Len(pat) + 1) :
        SubSeq(line, i, i + Len(pat) - 1) = pat

\* head.contains(pat), for a pattern without a line break
HeadContains(head, pat) == \E k \in DOMAIN head : Contains(head[k], pat)

\* str::to_lowercase on the letters of the file names of the model
LowerChar(c) ==
    CASE c = "I" -> "i" [] c = "N" -> "n" [] c = "F" -> "f" [] c = "O" -> "o"
      [] OTHER -> c

to_lowercase(str) == [i \in DOMAIN str |-> LowerChar(str[i])]

\* Path::extension of a file name, lower-cased: the text after its last dot,
\* none for a name without a dot or with its only dot in front.
extension(file_name) ==
    IF PositionsOf(file_name, ".") \subseteq {1}
    THEN NoAttr
    ELSE [some |-> TRUE,
          value |-> to_lowercase(SubSeq(file_name,
                                        SetMax(PositionsOf(file_name, ".")) + 1,
                                        Len(file_name)))]

\* str::trim_start
RECURSIVE TrimStart(_)
TrimStart(line) ==
    IF line # << >> /\ Head(line) = " " THEN TrimStart(Tail(line)) ELSE line

\* head.trim_start().starts_with(c): the first character that is not blank.
RECURSIVE HeadStartsWith(_, _)
HeadStartsWith(head, c) ==
    IF head = << >> THEN FALSE
    ELSE IF TrimStart(Head(head)) = << >> THEN HeadStartsWith(Tail(head), c)
    ELSE Head(TrimStart(Head(head))) = c

looks_like_xml(head) ==
    HeadContains(head, << "<", "?", "x", "m", "l" >>) \/ HeadStartsWith(head, "<")

LcovCanParse(file_name, head) ==
    \/ extension(file_name).some
         /\ extension(file_name).value \in { << "i", "n", "f", "o" >>, << "l", "c", "o", "v" >> }
    \/ /\ \E k \in DOMAIN head : StartsWith(head[k], << "S", "F", ":" >>)
       /\ \E k \in DOMAIN head :
             StartsWith(head[k], << "D", "A", ":" >>) \/ StartsWith(head[k], << "F", "N", ":" >>)

\* str::split_whitespace().count()
WordCount(str) ==
    Cardinality({ i \in DOMAIN str :
                    str[i] # " " /\ (i = 1 \/ str[i - 1] = " ") })

looks_like_go_block(line) ==
    /\ Contains(line, << ".", "g", "o", ":" >>)
    /\ LET colon_pos == SetMax({ i \in 1..(Len(line) - 3) :
                                   SubSeq(line, i, i + 3) = << ".", "g", "o", ":" >> })
           after == SubSeq(line, colon_pos + 4, Len(line))
       IN Contains(after, << "," >>) /\ WordCount(after) >= 2

GocoverCanParse(file_name, head) ==
    \/ extension(file_name).some
         /\ extension(file_name).value \in { << "c", "o", "v", "e", "r", "p", "r", "o", "f", "i", "l", "e" >>, << "g", "o", "c", "o", "v" >> }
    \/ head # << >> /\ StartsWith(head[1], << "m", "o", "d", "e", ":", " " >>)
    \/ \E k \in DOMAIN head : looks_like_go_block(head[k])

looks_like_istanbul(head) ==
    /\ HeadStartsWith(head, "{")
    /\ HeadContains(head, << "\"", "s", "t", "a", "t", "e", "m", "e", "n", "t", "M", "a", "p", "\"" >>)
    /\ HeadContains(head, << "\"", "f", "n", "M", "a", "p", "\"" >>)

IstanbulCanParse(file_name, head) ==
    \/ to_lowercase(file_name) = << "c", "o", "v", "e", "r", "a", "g", "e", "-", "f", "i", "n", "a", "l", ".", "j", "s", "o", "n" >>
    \/ looks_like_istanbul(head)

JacocoCanParse(file_name, head) ==
    /\ looks_like_xml(head)
    /\ HeadContains(head, << "<", "r", "e", "p", "o", "r", "t" >>)
    /\ \/ HeadContains(head, << "j", "a", "c", "o", "c", "o" >>)
       \/ HeadContains(head, << "J", "A", "C", "O", "C", "O" >>)
       \/ HeadContains(head, << "<", "p", "a", "c", "k", "a", "g", "e" >>)

CoberturaCanParse(file_name, head) ==
    looks_like_xml(head) /\ HeadContains(head, << "<", "c", "o", "v", "e", "r", "a", "g", "e" >>)

CloverCanParse(file_name, head) ==
    /\ looks_like_xml(head)
    /\ HeadContains(head, << "<", "c", "o", "v", "e", "r", "a", "g", "e" >>)
    /\ HeadContains(head, << "c", "l", "o", "v", "e", "r", "=" >>)

\* parsers::all(): the registered parsers in detection priority order.
all == << "lcov", "gocover", "istanbul", "jacoco", "cobertura" >>

can_parse(format, file_name, head) ==
    CASE format = "lcov" -> LcovCanParse(file_name, head)
      [] format = "gocover" -> GocoverCanParse(file_name, head)
      [] format = "istanbul" -> IstanbulCanParse(file_name, head)
      [] format = "jacoco" -> JacocoCanParse(file_name, head)
      [] format = "cobertura" -> CoberturaCanParse(file_name, head)
      [] format = "clover" -> CloverCanParse(file_name, head)

\* all().into_iter().find(|p| p.can_parse(path, content)); "unknown" is None.
detect(file_name, head) ==
    IF \A i \in DOMAIN all : ~can_parse(all[i], file_name, head)
    THEN "unknown"
    ELSE all[SetMin({ i \in DOMAIN all : can_parse(all[i], file_name, head) })]

FileNames ==
    { << "c", ".", "i", "n", "f", "o" >>, << "c", ".", "I", "N", "F", "O" >>, << "c", ".", "x", "m", "l" >>, << "c", ".", "g", "o", "c", "o", "v" >>, << "c", "o", "v", "e", "r", "a", "g", "e", "-", "f", "i", "n", "a", "l", ".", "j", "s", "o", "n" >>, << "c", ".", "t", "x", "t" >> }

HeadLines ==
    { << "S", "F", ":", "a" >>, << "D", "A", ":", "1", ",", "1" >>, << "m", "o", "d", "e", ":", " ", "s", "e", "t" >>, << "a", ".", "g", "o", ":", "1", ".", "1", ",", "2", ".", "2", " ", "1", " ", "1" >>, << "{", "\"", "a", "\"", ":", "{", "\"", "s", "t", "a", "t", "e", "m", "e", "n", "t", "M", "a", "p", "\"", ":", "{", "}", ",", "\"", "f", "n", "M", "a", "p", "\"", ":", "{", "}", "}", "}" >>, << "<", "?", "x", "m", "l", "?", ">" >>,
      << "<", "c", "o", "v", "e", "r", "a", "g", "e", ">" >>, << "<", "c", "o", "v", "e", "r", "a", "g", "e", " ", "c", "l", "o", "v", "e", "r", "=", "\"", "4", "\"", ">" >>, << "<", "r", "e", "p", "o", "r", "t", ">", "<", "p", "a", "c", "k", "a", "g", "e", "/", ">" >>, << "x" >> }

(***************************************************************************)
(* Path normalization at ingest (ingest.rs).  A path is the sequence of    *)
(* its characters.                                                         *)
(***************************************************************************)
\* Path::components: the names between the separators, empty names and "."
\* left out; the root directory is has_root.
has_root(path) == StartsWith(path, << "/" >>)

components(path) ==
    SelectSeq(Split(path, "/"), LAMBDA c : c # << >> /\ c # << "." >>)

\* The mutant of path_starts_with: str::starts_with on the texts.
text_starts_with(path, base) == StartsWith(path, base)

\* Path::starts_with: base is a prefix of the path component by component.
path_starts_with(path, base) ==
    /\ has_root(path) = has_root(base)
    /\ Len(components(base)) <= Len(components(path))
    /\ SubSeq(components(path), 1, Len(components(base))) = components(base)

RECURSIVE TrimStartSlashes(_)
TrimStartSlashes(str) ==
    IF str # << >> /\ Head(str) = "/" THEN TrimStartSlashes(Tail(str)) ELSE str

\* The rest of the text of a path behind its first n components.
RECURSIVE DropComponents(_, _)
DropComponents(text, n) ==
    IF n = 0 THEN TrimStartSlashes(text)
    ELSE IF ~split_once(TrimStartSlashes(text), "/").some THEN << >>
    ELSE IF split_once(TrimStartSlashes(text), "/").left = << "." >>
         THEN DropComponents(split_once(TrimStartSlashes(text), "/").right, n)
         ELSE DropComponents(split_once(TrimStartSlashes(text), "/").right, n - 1)

\* Path::strip_prefix(base).to_string_lossy(): the text of the path behind
\* the components of the base.
strip_prefix(path, base) == DropComponents(path, Len(components(base)))

normalize_file_path(path, root) ==
    IF has_root(path) /\ path_starts_with(path, root)
    THEN strip_prefix(path, root)
    ELSE path

\* if let Some(root) = root { normalize_file_path(&mut file_cov, root); }
NormalizeAtIngest(path, root) ==
    IF root.some THEN normalize_file_path(path, root.value) ELSE path

IngestPaths ==
    { prefix \o suffix :
        prefix \in { << "/", "r", "/", "p" >>, << "/", "r", "/", "p", "2" >>, << "/", "r" >>, << "r", "/", "p" >>, << >> },
        suffix \in { << >>, << "/", "x" >>, << "/", "x", "/", "y" >>, << "/", "/", "x" >> } }

IngestRoots ==
    { NoAttr } \cup
    { [some |-> TRUE, value |-> r] : r \in { << "/", "r", "/", "p" >>, << "/", "r", "/", "p", "/" >>, << "/", "r" >>, << "r", "/", "p" >>, << "/" >> } }

(***************************************************************************)
(* src/diff.rs: parse_diff with new_line_number at its width.  A u32 is    *)
(* the pair of its 16-bit halves, hi * 2^16 + lo.                          *)
(***************************************************************************)
MaxU32Lines == 4

U32Half == 65536

U32(hi, lo) == [hi |-> hi, lo |-> lo]

U32_MAX == U32(U32Half - 1, U32Half - 1)

NoU32 == [some |-> FALSE, value |-> U32(0, 0)]

\* The digits of str::parse::<u32>, most significant first: None when the
\* value passes u32::MAX.
RECURSIVE DecimalU32(_, _)
DecimalU32(digits, acc) ==
    IF digits = << >> THEN [some |-> TRUE, value |-> acc]
    ELSE LET lo == acc.lo * 10 + DigitValue(Head(digits))
             hi == acc.hi * 10 + (lo \div U32Half)
         IN IF hi >= U32Half THEN NoU32
            ELSE DecimalU32(Tail(digits), U32(hi, lo % U32Half))

\* str::parse::<u32>: an optional '+', then one or more digits, the value
\* at most u32::MAX.
parse_u32(str) ==
    LET digits == IF StartsWith(str, << "+" >>) THEN StripPrefix(str, << "+" >>)
                  ELSE str
    IN IF digits = << >> \/ \E i \in DOMAIN digits : ~IsDigit(digits[i])
       THEN NoU32
       ELSE DecimalU32(digits, U32(0, 0))

\* parse_hunk_header, its start line a u32.
parse_hunk_header_u32(line) ==
    LET after_at == StripPrefix(line, << "@", "@", " " >>)
        parts == Split(after_at, " ")
        new_part == StripPrefix(parts[2], << "+" >>)
        start_str == Head(Split(new_part, ","))
    IN IF ~StartsWith(line, << "@", "@", " " >>) THEN NoU32
       ELSE IF Len(parts) < 2 THEN NoU32
       ELSE IF ~StartsWith(parts[2], << "+" >>) THEN NoU32
       ELSE parse_u32(start_str)

\* new_line_number += 1 where the sum is within u32.
AddOneChecked(n) ==
    IF n.lo + 1 < U32Half THEN U32(n.hi, n.lo + 1) ELSE U32(n.hi + 1, 0)

\* new_line_number += 1: at u32::MAX the addition overflows; a build with
\* overflow checks panics there, a build without them wraps to 0.
AddOne(st, overflow_checks) ==
    IF st.new_line_number # U32_MAX
    THEN [st EXCEPT !.new_line_number = AddOneChecked(@)]
    ELSE IF overflow_checks
    THEN [st EXCEPT !.panicked = TRUE]
    ELSE [st EXCEPT !.new_line_number = U32(0, 0), !.wrapped = TRUE]

\* The locals of parse_diff at its entry.
ParseDiffStart ==
    [result |-> << >>, current_file |-> NoFile, new_line_number |-> U32(0, 0),
     panicked |-> FALSE, wrapped |-> FALSE]

\* One iteration of the loop of parse_diff, new_line_number a u32.
parse_line_u32(st, line, overflow_checks) ==
    LET header == << "+", "+", "+", " " >>
        rest == StripPrefix(line, header)
        path == IF StartsWith(rest, << "b", "/" >>)
                THEN StripPrefix(rest, << "b", "/" >>)
                ELSE IF StartsWith(rest, << "a", "/" >>)
                THEN StripPrefix(rest, << "a", "/" >>)
                ELSE rest
        new_range == parse_hunk_header_u32(line)
    IN IF StartsWith(line, header)
       THEN [st EXCEPT !.current_file =
                IF rest = DevNull THEN NoFile
                ELSE [some |-> TRUE, value |-> path]]
       ELSE IF StartsWith(line, << "@", "@", " " >>)
       THEN (IF new_range.some
             THEN [st EXCEPT !.new_line_number = new_range.value]
             ELSE st)
       ELSE IF ~st.current_file.some THEN st
       ELSE IF StartsWith(line, << "\\" >>) THEN st
       ELSE IF StartsWith(line, << "+" >>)
                /\ ~StartsWith(line, << "+", "+", "+" >>)
       THEN AddOne([st EXCEPT
                       !.result = PushLine(@, st.current_file.value,
                                           st.new_line_number)],
                   overflow_checks)
       ELSE IF StartsWith(line, << "-" >>)
                /\ ~StartsWith(line, << "-", "-", "-" >>)
       THEN st
       ELSE AddOne(st, overflow_checks)

\* The lines of the texts: file headers, hunk headers whose new-start is
\* at, next to and past u32::MAX, unparseable hunk headers and body lines.
U32DiffLines ==
    { << "+", "+", "+", " ", "b", "/", "f" >>,
      << "+", "+", "+", " ", "/", "d", "e", "v", "/", "n", "u", "l", "l" >>,
      << "@", "@", " ", "-", "1", " ", "+", "4", "2", "9", "4", "9", "6", "7", "2", "9", "5", " ", "@", "@" >>,
      << "@", "@", " ", "-", "1", " ", "+", "4", "2", "9", "4", "9", "6", "7", "2", "9", "4", ",", "2", " ", "@", "@" >>,
      << "@", "@", " ", "-", "1", " ", "+", "4", "2", "9", "4", "9", "6", "7", "2", "9", "6", " ", "@", "@" >>,
      << "@", "@", " ", "-", "1", " ", "+", "7", " ", "@", "@" >>,
      << "@", "@", " ", "x" >>,
      << "+", "x" >>,
      << " ", "x" >>,
      << "-", "x" >>,
      << "\\" >> \o NoNewline }

VARIABLES db, diff, result, current_file, new_line_number, args, ret, lcov

vars ==
    << db, diff, result, current_file, new_line_number, args, ret, lcov >>

\* The arguments and the return value of a call of a function of the crate
\* that reads no store: none is running in the store and diff machines.
call_vars == << args, ret, lcov >>

NoReturn == [done |-> FALSE, value |-> << >>]

Returned(v) == [done |-> TRUE, value |-> v]

parser_vars == << diff, result, current_file, new_line_number >>

CoverageRows(s) ==
    Cardinality(s.line_coverage) + Cardinality(s.branch_coverage)
        + Cardinality(s.function_coverage)

NoStoreNoDiff ==
    /\ db = EmptyStore
    /\ diff = << >>
    /\ result = << >>
    /\ current_file = NoFile
    /\ new_line_number = 0

Init ==
    /\ NoStoreNoDiff
    /\ args = << >>
    /\ ret = NoReturn
    /\ lcov = LcovStart

\* covrs ingest <file> [--name N] [--overwrite]; the file's parser emits
\* files and then ends (fault "none", or "flush" when the store's INSERT
\* fails) or meets malformed input (fault "parser").
Ingest(name, overwrite, files, fault) ==
    /\ db' = ingest(db, TRUE, name, overwrite, files, fault).store
    /\ CoverageRows(db') <= MaxStoreRows
    /\ UNCHANGED << parser_vars, call_vars >>

\* covrs ingest of a file that no parser accepts.
IngestUnknown(name, overwrite) ==
    /\ db' = ingest(db, FALSE, name, overwrite, << >>, "none").store
    /\ UNCHANGED << parser_vars, call_vars >>

DeleteReport(name) ==
    /\ db' = delete_report(db, name).store
    /\ UNCHANGED << parser_vars, call_vars >>

\* The payloads of the ingests that fail on the way: the parser error and the
\* failing INSERT are met after the rows of one file.
FaultPayloads == { files \in Payloads : Len(files) = 1 }

Next ==
    \/ \E name \in Names, overwrite \in BOOLEAN, files \in Payloads :
          Ingest(name, overwrite, files, "none")
    \/ \E name \in Names, overwrite \in BOOLEAN, files \in FaultPayloads,
          fault \in Faults \ {"none"} : Ingest(name, overwrite, files, fault)
    \/ \E name \in Names, overwrite \in BOOLEAN : IngestUnknown(name, overwrite)
    \/ \E name \in Names : DeleteReport(name)

Spec == Init /\ [][Next]_vars

NextRows ==
    \/ \E name \in Names, overwrite \in BOOLEAN, files \in RowPayloads :
          Ingest(name, overwrite, files, "none")
    \/ \E name \in Names, overwrite \in BOOLEAN, files \in FaultPayloads,
          fault \in Faults \ {"none"} : Ingest(name, overwrite, files, fault)
    \/ \E name \in Names, overwrite \in BOOLEAN : IngestUnknown(name, overwrite)
    \/ \E name \in Names : DeleteReport(name)

SpecRows == Init /\ [][NextRows]_vars

\* The loop of parse_diff over the lines of the next element of the text.
ParseElem(e) ==
    LET st == parse_lines([result |-> result, current_file |-> current_file,
                           new_line_number |-> new_line_number],
                          RenderElem(e))
    IN /\ Len(diff) < MaxDiffElems
       /\ diff' = Append(diff, e)
       /\ result' = st.result
       /\ current_file' = st.current_file
       /\ new_line_number' = st.new_line_number
       /\ UNCHANGED << db, call_vars >>

\* The text goes on with the "---" and "+++" header lines of a file.
ParseFileHeader(target) == ParseElem(FileElem(target))

\* The text goes on with a hunk of the file of the last header.
ParseHunk(new_start, body) ==
    /\ diff # << >>
    /\ ParseElem(HunkElem(new_start, body))

NextDiff ==
    \/ \E target \in Targets : ParseFileHeader(target)
    \/ \E new_start \in Lines, body \in Bodies : ParseHunk(new_start, body)

SpecDiff == Init /\ [][NextDiff]_vars

(***************************************************************************)
(* What the claims speak of.                                               *)
(***************************************************************************)
\* The hit counts the reports of s record for line l of the file at path.
HitCounts(s, path, l) ==
    { x.hit_count : x \in
        { y \in s.line_coverage :
            /\ y.line_number = l
            /\ \E sf \in s.source_file :
                  sf.path = path /\ sf.id = y.source_file_id } }

\* The reports of s that record line l of the file at path.
ReportsOfLine(s, path, l) ==
    { y.report_id : y \in
        { z \in s.line_coverage :
            /\ z.line_number = l
            /\ \E sf \in s.source_file :
                  sf.path = path /\ sf.id = z.source_file_id } }

\* The line lists a diff may hold for one file.
DiffLineLists == SeqsUpTo(Lines, MaxDiffLines)

\* The diffs of one file.
OneFileDiffs(path) == { [p \in {path} |-> q] : q \in DiffLineLists }

\* The maps parse_diff may hand to diff_coverage.
DiffInputs ==
    UNION { [P -> DiffLineLists] : P \in SUBSET Paths }

Elems(q) == { q[i] : i \in DOMAIN q }

\* The entry of the file at path in a diff_coverage result, if any.
DiffEntries(res, path) ==
    { res.files[i] : i \in { j \in DOMAIN res.files :
                               res.files[j].path = path } }

(***************************************************************************)
(* C1  Union semantics.  In a store of two or more reports, for every line *)
(* that one or more reports record, get_lines lists the line once, with    *)
(* the maximum of the recorded hit counts, and diff_coverage puts a diff   *)
(* line among the covered lines iff that maximum is positive (otherwise    *)
(* among the missed lines).                                                *)
(***************************************************************************)
C1_UnionSemantics ==
    Cardinality(db.report) >= 2 =>
        \A path \in Paths, l \in Lines :
            LET cs == HitCounts(db, path, l)
                got == get_lines(db, path)
            IN cs # {} =>
                /\ got.ok
                /\ Cardinality({ i \in DOMAIN got.lines :
                                   got.lines[i].line_number = l }) = 1
                /\ \A i \in DOMAIN got.lines :
                      got.lines[i].line_number = l
                          => got.lines[i].hit_count = SetMax(cs)
                /\ \A d \in OneFileDiffs(path) :
                      l \in Elems(d[path]) =>
                          LET es == DiffEntries(diff_coverage(db, d), path)
                          IN /\ Cardinality(es) = 1
                             /\ \A e \in es :
                                  /\ l \in Elems(e.covered_lines)
                                        <=> SetMax(cs) > 0
                                  /\ l \in Elems(e.missed_lines)
                                        <=> SetMax(cs) = 0

\* Two reports record the same line, one with hits and one without.
C1_Witness ==
    /\ Cardinality(db.report) >= 2
    /\ \E path \in Paths, l \in Lines :
          /\ Cardinality(ReportsOfLine(db, path, l)) >= 2
          /\ Cardinality(HitCounts(db, path, l)) >= 2

(***************************************************************************)
(* C2  Atomic ingest.  A failing ingest (duplicate name without overwrite, *)
(* unknown format, a parser error after any number of emitted files, a     *)
(* failing batch flush) leaves the store as it was, also when overwrite    *)
(* was requested and the old report had been deleted in the transaction.   *)
(***************************************************************************)
C2_AtomicIngest ==
    \A name \in Names, overwrite \in BOOLEAN, detected \in BOOLEAN,
       files \in Payloads \cup RowPayloads, fault \in Faults :
        LET r == ingest(db, detected, name, overwrite, files, fault)
        IN /\ ~r.ok => r.store = db
           /\ ~detected => ~r.ok
           /\ fault = "parser" => ~r.ok
           /\ ((\E x \in db.report : x.name = name) /\ ~overwrite) => ~r.ok

\* An overwriting ingest of an existing report with rows fails after it has
\* deleted the old report and written rows of the new one.
C2_Witness ==
    \E name \in Names, files \in Payloads :
        LET gone == DeleteReportWhereName(db, name)
            r == insert_coverage_tx(gone, name, files, "parser")
        IN /\ \E x \in db.report : x.name = name
           /\ gone.line_coverage # db.line_coverage
           /\ ~r.ok
           /\ r.store.line_coverage # gone.line_coverage
           /\ ~ingest(db, TRUE, name, TRUE, files, "parser").ok

\* The LineCoverage values of files, in the order they are emitted, as
\* (path, line_number, hit_count) records.
RECURSIVE EmittedLines(_)
EmittedLines(files) ==
    IF files = << >> THEN << >>
    ELSE [i \in DOMAIN Head(files).lines |->
             [path |-> Head(files).path,
              line_number |-> Head(files).lines[i].line_number,
              hit_count |-> Head(files).lines[i].hit_count]]
         \o EmittedLines(Tail(files))

\* The hit count of the last emitted LineCoverage of (path, n).
LastHit(files, path, n) ==
    LET e == EmittedLines(files)
        at == { i \in DOMAIN e : e[i].path = path /\ e[i].line_number = n }
    IN e[SetMax(at)].hit_count

\* The store holds no report other than name.
NoOtherReport(s, name) == \A r \in s.report : r.name = name

(***************************************************************************)
(* C3  Ingest round trip, as stated: after a successful insert_coverage    *)
(* into a store with no other report, for every emitted file F and every   *)
(* (n, h) of F.lines, get_lines(F.path) has an entry for n whose hit count *)
(* is h, also when a path or a line is emitted more than once.             *)
(***************************************************************************)
C3_RoundTripEveryLine ==
    \A name \in Names, overwrite \in BOOLEAN, files \in Payloads :
        NoOtherReport(db, name) =>
            LET r == insert_coverage(db, name, files, overwrite)
                e == EmittedLines(files)
            IN r.ok =>
                \A i \in DOMAIN e :
                    LET got == get_lines(r.store, e[i].path)
                        at == { j \in DOMAIN got.lines :
                                  got.lines[j].line_number = e[i].line_number }
                    IN /\ got.ok
                       /\ \E j \in at : got.lines[j].hit_count = e[i].hit_count

(***************************************************************************)
(* C3  Ingest round trip, amended: get_lines(F.path) has exactly one entry *)
(* for every emitted line n of F, and its hit count is the one of the last *)
(* LineCoverage emitted for (F.path, n).                                   *)
(***************************************************************************)
C3_RoundTripLastWins ==
    \A name \in Names, overwrite \in BOOLEAN, files \in Payloads :
        NoOtherReport(db, name) =>
            LET r == insert_coverage(db, name, files, overwrite)
                e == EmittedLines(files)
            IN r.ok =>
                \A i \in DOMAIN e :
                    LET got == get_lines(r.store, e[i].path)
                        at == { j \in DOMAIN got.lines :
                                  got.lines[j].line_number = e[i].line_number }
                    IN /\ got.ok
                       /\ Cardinality(at) = 1
                       /\ \A j \in at :
                             got.lines[j].hit_count
                                = LastHit(files, e[i].path, e[i].line_number)

\* The store is the result of ingesting, into a store without reports, data
\* that emits one line of one path twice with different hit counts.
C3_Witness ==
    /\ Cardinality(db.report) = 1
    /\ \E name \in Names, files \in Payloads :
          LET e == EmittedLines(files)
              r == insert_coverage(EmptyStore, name, files, FALSE)
          IN /\ \E i, j \in DOMAIN e :
                   /\ i < j
                   /\ e[i].path = e[j].path
                   /\ e[i].line_number = e[j].line_number
                   /\ e[i].hit_count # e[j].hit_count
             /\ r.ok
             /\ r.store = db

\* The path of the source_file row id of s.
PathOf(s, id) == (CHOOSE f \in s.source_file : f.id = id).path

\* The name of the report row id of s.
NameOf(s, id) == (CHOOSE r \in s.report : r.id = id).name

\* The coverage rows of s with the surrogate ids replaced by what they stand
\* for: the report's name and the file's path.
NamedRows(s) ==
    { [report |-> NameOf(s, x.report_id), path |-> PathOf(s, x.source_file_id),
       kind |-> "line", key |-> << x.line_number >>, hit_count |-> x.hit_count]
        : x \in s.line_coverage }
    \cup
    { [report |-> NameOf(s, x.report_id), path |-> PathOf(s, x.source_file_id),
       kind |-> "branch", key |-> << x.line_number, x.branch_index >>,
       hit_count |-> x.hit_count] : x \in s.branch_coverage }
    \cup
    { [report |-> NameOf(s, x.report_id), path |-> PathOf(s, x.source_file_id),
       kind |-> "function", key |-> << x.name, x.start_line, x.end_line >>,
       hit_count |-> x.hit_count] : x \in s.function_coverage }

RowsOfReport(s, name) == { x \in NamedRows(s) : x.report = name }

RowsOfOthers(s, name) == { x \in NamedRows(s) : x.report # name }

\* Every coverage row points at a report row and a source_file row.
NoDanglingRow(s) ==
    \A x \in s.line_coverage \cup s.branch_coverage \cup s.function_coverage :
        /\ \E r \in s.report : r.id = x.report_id
        /\ \E f \in s.source_file : f.id = x.source_file_id

(***************************************************************************)
(* C4  Report names are unique in every reachable store.  Inserting a      *)
(* report under an existing name fails with "already exists" and changes   *)
(* nothing when overwrite is false; with overwrite it succeeds, and then   *)
(* exactly one report has the name and it holds only the new rows.         *)
(***************************************************************************)
C4_ReportNameUnique ==
    /\ \A r1, r2 \in db.report : r1.name = r2.name => r1 = r2
    /\ \A r1, r2 \in db.report : r1.id = r2.id => r1 = r2
    /\ \A name \in Names, files \in RowPayloads :
          (\E x \in db.report : x.name = name) =>
              LET no == insert_coverage_streaming(db, name, FALSE, files, "none")
                  yes == insert_coverage_streaming(db, name, TRUE, files, "none")
                  fresh == insert_coverage(EmptyStore, name, files, FALSE)
              IN /\ ~no.ok
                 /\ no.err = "already exists"
                 /\ no.store = db
                 /\ yes.ok
                 /\ Cardinality({ x \in yes.store.report : x.name = name }) = 1
                 /\ NoDanglingRow(yes.store)
                 /\ RowsOfReport(yes.store, name) = RowsOfReport(fresh.store, name)

\* A report with rows exists next to another report: an ingest under its name
\* meets the duplicate, and an overwrite has old rows to replace.
C4_Witness ==
    /\ Cardinality(db.report) = 2
    /\ \E name \in Names :
          /\ RowsOfReport(db, name) # {}
          /\ \E files \in RowPayloads :
                /\ files # << >>
                /\ RowsOfReport(
                      insert_coverage_streaming(db, name, TRUE, files, "none").store,
                      name) # RowsOfReport(db, name)

\* The diffs the query results are compared on: every path of the diff
\* carries the same list of distinct lines.
DiffProbes ==
    { [p \in Paths |-> SortedSeq(L)] : L \in (SUBSET Lines) \ {{}} }

\* What the five queries return on s.
QueryResults(s) ==
    [summary |-> get_summary(s),
     file_summaries |-> get_file_summaries(s),
     lines |-> [p \in Paths |-> get_lines(s, p)],
     rates |-> [p \in Paths |-> get_file_line_rate(s, p)],
     diffs |-> [d \in DiffProbes |-> diff_coverage(s, d)]]

(***************************************************************************)
(* C5  Overwrite idempotence.  From any store, ingesting a payload under a *)
(* name with overwrite twice in a row gives the same results of            *)
(* get_summary, get_file_summaries, get_lines, get_file_line_rate and      *)
(* diff_coverage as ingesting it once.                                     *)
(***************************************************************************)
C5_OverwriteIdempotent ==
    \A name \in Names, files \in RowPayloads :
        LET once == insert_coverage_streaming(db, name, TRUE, files, "none")
            twice == insert_coverage_streaming(once.store, name, TRUE, files,
                                               "none")
        IN /\ once.ok
           /\ twice.ok
           /\ QueryResults(twice.store) = QueryResults(once.store)

\* The store holds a report with rows next to another report with rows, so
\* that an overwrite of either replaces rows and the queries are in union mode.
C5_Witness ==
    /\ Cardinality(db.report) = 2
    /\ \A name \in Names : RowsOfReport(db, name) # {}
    /\ \E name \in Names, files \in RowPayloads :
          LET once == insert_coverage_streaming(db, name, TRUE, files, "none")
          IN /\ once.ok
             /\ once.store # db
             /\ QueryResults(once.store) # QueryResults(db)

\* No source_file row is left without a coverage row that references it.
NoOrphanFile(s) == \A f \in s.source_file : f.id \in ReferencedFiles(s)

(***************************************************************************)
(* C6  Deleting a report, by delete_report or by an overwriting ingest,    *)
(* removes every line, branch and function row of the report, leaves the   *)
(* rows of every other report unchanged and leaves no source_file row that *)
(* no coverage row references; delete_report of an unknown name fails.     *)
(***************************************************************************)
C6_DeleteRemovesExactly ==
    \A name \in Names :
        LET del == delete_report(db, name)
            known == \E r \in db.report : r.name = name
        IN /\ ~known => (~del.ok /\ del.store = db)
           /\ known =>
                /\ del.ok
                /\ ~\E r \in del.store.report : r.name = name
                /\ NoDanglingRow(del.store)
                /\ NamedRows(del.store) = RowsOfOthers(db, name)
                /\ del.store.report = { r \in db.report : r.name # name }
                /\ NoOrphanFile(del.store)
                /\ \A files \in RowPayloads :
                      LET over == insert_coverage_streaming(db, name, TRUE,
                                                            files, "none")
                          fresh == insert_coverage(EmptyStore, name, files,
                                                   FALSE)
                      IN /\ over.ok
                         /\ NoDanglingRow(over.store)
                         /\ RowsOfOthers(over.store, name)
                               = RowsOfOthers(db, name)
                         /\ RowsOfReport(over.store, name)
                               = RowsOfReport(fresh.store, name)
                         /\ NoOrphanFile(over.store)

\* Two reports with rows: one has rows in a file that only it references.
C6_Witness ==
    /\ Cardinality(db.report) = 2
    /\ \E name \in Names :
          /\ RowsOfReport(db, name) # {}
          /\ RowsOfOthers(db, name) # {}
          /\ \E p \in Paths :
                /\ \E x \in RowsOfReport(db, name) : x.path = p
                /\ ~\E x \in RowsOfOthers(db, name) : x.path = p
          /\ delete_report(db, name).ok
          /\ delete_report(db, name).store.source_file # db.source_file

(***************************************************************************)
(* C7  source_file garbage collection.  In every committed store reachable *)
(* by ingests, with or without overwrite and also of files without rows,   *)
(* every source_file row is referenced by a line, branch or function row,  *)
(* and source_file.path is unique.                                         *)
(***************************************************************************)
C7_NoOrphanSourceFile ==
    /\ NoOrphanFile(db)
    /\ \A f1, f2 \in db.source_file : f1.path = f2.path => f1 = f2

StrictlyAscending(q) == \A i, j \in DOMAIN q : i < j => q[i] < q[j]

\* The hit count the queries see for line l of the file at path: the
\* maximum over the reports that record it.
EffectiveHit(s, path, l) == SetMax(HitCounts(s, path, l))

\* The paths of a diff that the store knows and that have a diff line with a
\* line_coverage row.
PathsWithCoverage(s, d) ==
    { p \in DOMAIN d : \E l \in Elems(d[p]) : HitCounts(s, p, l) # {} }

(***************************************************************************)
(* C8  diff_coverage partition.  For any store and any map of diff lines,  *)
(* the result has one entry for exactly the paths that have a diff line    *)
(* with a line_coverage row; covered_lines are the diff lines whose        *)
(* effective hit count is positive, missed_lines those whose effective hit *)
(* count is 0, each strictly ascending and disjoint from the other; the    *)
(* totals are the sums of the list lengths; files are ordered by path.     *)
(***************************************************************************)
C8_DiffPartition ==
    \A d \in DiffInputs :
        LET res == diff_coverage(db, d)
            fs == res.files
        IN /\ { fs[i].path : i \in DOMAIN fs } = PathsWithCoverage(db, d)
           /\ \A i, j \in DOMAIN fs :
                 i < j => PathRank(fs[i].path) < PathRank(fs[j].path)
           /\ \A i \in DOMAIN fs :
                 /\ Elems(fs[i].covered_lines)
                       = { l \in Elems(d[fs[i].path]) :
                             /\ HitCounts(db, fs[i].path, l) # {}
                             /\ EffectiveHit(db, fs[i].path, l) > 0 }
                 /\ Elems(fs[i].missed_lines)
                       = { l \in Elems(d[fs[i].path]) :
                             /\ HitCounts(db, fs[i].path, l) # {}
                             /\ EffectiveHit(db, fs[i].path, l) = 0 }
                 /\ StrictlyAscending(fs[i].covered_lines)
                 /\ StrictlyAscending(fs[i].missed_lines)
                 /\ Elems(fs[i].covered_lines) \cap Elems(fs[i].missed_lines)
                       = {}
           /\ res.total_covered = SumLen(fs, "covered_lines")
           /\ res.total_instrumentable
                 = SumLen(fs, "covered_lines") + SumLen(fs, "missed_lines")

\* The text of a diff.
RECURSIVE DiffText(_)
DiffText(d) ==
    IF d = << >> THEN << >> ELSE RenderElem(Head(d)) \o DiffText(Tail(d))

\* The new-file line numbers of the '+' lines of a hunk: the hunk's new
\* start plus the number of context and '+' lines before the line.
AddedLines(h) ==
    LET at == { i \in DOMAIN h.body : h.body[i].marker = "+" }
        idx == SortedSeq(at)
    IN [k \in DOMAIN idx |->
           h.new_start
             + CountMarkers(SubSeq(h.body, 1, idx[k] - 1), {"+", " "})]

\* The map a diff stands for: under every target other than /dev/null the
\* new-file line numbers of its added lines, in the order of the text.
RECURSIVE AddedByFile(_, _, _)
AddedByFile(d, target, acc) ==
    IF d = << >> THEN acc
    ELSE IF Head(d).kind = "file"
    THEN AddedByFile(Tail(d), Head(d).target, acc)
    ELSE LET ls == AddedLines(Head(d))
             acc2 == IF target = DevNull \/ ls = << >> THEN acc
                     ELSE [f \in DOMAIN acc \cup {target} |->
                              IF f = target
                              THEN (IF target \in DOMAIN acc
                                    THEN acc[target] \o ls ELSE ls)
                              ELSE acc[f]]
         IN AddedByFile(Tail(d), target, acc2)

\* The target of the file section that element i of d belongs to.
SectionOf(d, i) ==
    SetMax({ j \in 1..i : d[j].kind = "file" })

\* A well-formed unified diff: every target is opened by one header, the
\* hunks of a file are in ascending order of their new-file ranges and do not
\* overlap, and a "\ No newline" marker follows a line of the hunk.
WellFormed(d) ==
    /\ d # << >> => d[1].kind = "file"
    /\ \A i, j \in DOMAIN d :
          (i < j /\ d[i].kind = "file" /\ d[j].kind = "file")
              => d[i].target # d[j].target
    /\ \A i, j \in DOMAIN d :
          (i < j /\ d[i].kind = "hunk" /\ d[j].kind = "hunk"
                 /\ SectionOf(d, i) = SectionOf(d, j))
              => d[i].new_start + CountMarkers(d[i].body, {"+", " "})
                    <= d[j].new_start
    /\ \A i \in DOMAIN d :
          \A k \in DOMAIN d[i].body :
              d[i].body[k].marker = "\\"
                  => (k > 1 /\ d[i].body[k - 1].marker # "\\")

(***************************************************************************)
(* C9  Diff parser round trip.  For every well-formed unified diff,        *)
(* parse_diff records for every '+' body line, under the target file of    *)
(* its hunk, the hunk's new start plus the number of context and '+' lines *)
(* before it in the hunk, whatever the text of the added, removed and      *)
(* context lines; '-' lines and "\ No newline" markers do not advance the  *)
(* counter, and a /dev/null target gets no entry.                          *)
(***************************************************************************)
C9_DiffRoundTrip ==
    WellFormed(diff) =>
        /\ result = parse_diff(DiffText(diff))
        /\ result = AddedByFile(diff, DevNull, << >>)

(***************************************************************************)
(* C10  For every input text, every value of the map parse_diff returns is *)
(* a strictly ascending list of line numbers, also when a target path is   *)
(* opened by more than one "+++" header or the hunk headers of a file are  *)
(* not in ascending order.                                                 *)
(***************************************************************************)
C10_ParsedLinesAscending ==
    \A f \in DOMAIN result : StrictlyAscending(result[f])

(***************************************************************************)
(* The range coalescer of the report (report.rs).                          *)
(***************************************************************************)

MaxReportLine == 6

ReportLines == 1..MaxReportLine

MAX_BRIDGE_GAP == 2

\* slice::binary_search(&l).is_ok() on a list in ascending order: l is one of
\* its elements.
binary_search(list, l) == \E i \in DOMAIN list : list[i] = l

\* The mutant of Bridges: the gap is bridged whatever it holds.
BridgesAnyLine(all_instrumentable, end, line) ==
    line - end - 1 <= MAX_BRIDGE_GAP

\* The test of the loop of coalesce_ranges: the gap between end and line is
\* at most MAX_BRIDGE_GAP wide and holds no instrumentable line.
Bridges(all_instrumentable, end, line) ==
    /\ line - end - 1 <= MAX_BRIDGE_GAP
    /\ \A l \in (end + 1)..(line - 1) : ~binary_search(all_instrumentable, l)

RECURSIVE CoalesceLoop(_, _, _, _, _, _)
CoalesceLoop(lines, all_instrumentable, i, ranges, start, end) ==
    IF i > Len(lines)
    THEN Append(ranges, << start, end >>)
    ELSE IF Bridges(all_instrumentable, end, lines[i])
         THEN CoalesceLoop(lines, all_instrumentable, i + 1, ranges,
                           start, lines[i])
         ELSE CoalesceLoop(lines, all_instrumentable, i + 1,
                           Append(ranges, << start, end >>),
                           lines[i], lines[i])

coalesce_ranges(lines, all_instrumentable) ==
    IF lines = << >>
    THEN << >>
    ELSE CoalesceLoop(lines, all_instrumentable, 2, << >>,
                      lines[1], lines[1])

\* The calls of coalesce_ranges: the missed lines of a file and its
\* instrumentable lines, both in strictly ascending order.
InitCoalesce ==
    /\ NoStoreNoDiff
    /\ args \in { [lines |-> SortedSeq(M), all_instrumentable |-> SortedSeq(I)] :
                    I \in SUBSET ReportLines, M \in SUBSET ReportLines }
    /\ Range(args.lines) \subseteq Range(args.all_instrumentable)
    /\ ret = NoReturn
    /\ lcov = LcovStart

CoalesceRanges ==
    /\ ~ret.done
    /\ ret' = Returned(coalesce_ranges(args.lines, args.all_instrumentable))
    /\ UNCHANGED << db, parser_vars, args, lcov >>

NextCoalesce == CoalesceRanges

SpecCoalesce == InitCoalesce /\ [][NextCoalesce]_vars

\* The lines of the ranges.
RangeLines(ranges) ==
    UNION { ranges[k][1]..ranges[k][2] : k \in DOMAIN ranges }

\* l lies between two successive missed lines that are at most
\* MAX_BRIDGE_GAP + 1 apart.
InBridgedGap(missed, l) ==
    \E a \in missed, b \in missed :
        /\ a < l /\ l < b
        /\ b - a - 1 <= MAX_BRIDGE_GAP
        /\ \A m \in missed : ~(a < m /\ m < b)

\* C11: for missed lines in strictly ascending order that are all
\* instrumentable, coalesce_ranges returns ascending, pairwise disjoint
\* inclusive ranges whose bounds are missed lines; the ranges hold every missed
\* line and, besides, only non-instrumentable lines of gaps of at most
\* MAX_BRIDGE_GAP lines; and no two successive ranges are separated by a gap
\* of at most MAX_BRIDGE_GAP lines none of which is instrumentable.
C11_CoalesceRanges ==
    ret.done =>
        LET r == ret.value
            missed == Range(args.lines)
            instr == Range(args.all_instrumentable)
        IN /\ \A k \in DOMAIN r :
                /\ r[k][1] <= r[k][2]
                /\ r[k][1] \in missed
                /\ r[k][2] \in missed
           /\ \A k \in 1..(Len(r) - 1) : r[k][2] < r[k + 1][1]
           /\ missed \subseteq RangeLines(r)
           /\ \A l \in RangeLines(r) \ missed :
                /\ l \notin instr
                /\ InBridgedGap(missed, l)
           /\ \A k \in 1..(Len(r) - 1) :
                ~ /\ r[k + 1][1] - r[k][2] - 1 <= MAX_BRIDGE_GAP
                  /\ \A l \in (r[k][2] + 1)..(r[k + 1][1] - 1) : l \notin instr

\* A call that bridged one gap and kept another open.
C11_Witness ==
    /\ ret.done
    /\ Len(ret.value) >= 2
    /\ RangeLines(ret.value) # Range(args.lines)
    /\ \E k \in 1..(Len(ret.value) - 1) :
          ret.value[k + 1][1] - ret.value[k][2] - 1 <= MAX_BRIDGE_GAP

(***************************************************************************)
(* The annotations of a check run (cli.rs).                                *)
(***************************************************************************)

MaxAnnLine == 4

MaxAnnFiles == 2

FileDiffCoverage(path, covered_lines, missed_lines) ==
    [path |-> path, covered_lines |-> covered_lines,
     missed_lines |-> missed_lines]

\* FileDiffCoverage::all_instrumentable: the covered and the missed lines of
\* the file in ascending order.
all_instrumentable(file) ==
    SortedSeq(Range(file.covered_lines) \cup Range(file.missed_lines))

Annotation(path, start_line, end_line, message) ==
    [path |-> path, start_line |-> start_line, end_line |-> end_line,
     message |-> message]

\* The mutant of annotation_message: the message of a single line for every
\* range.
annotation_message_single(start, end) ==
    << "Line " >> \o Decimal(start) \o << " not covered by tests" >>

\* The text is kept as its literal pieces and the digits of the numbers.
annotation_message(start, end) ==
    IF start = end
    THEN << "Line " >> \o Decimal(start) \o << " not covered by tests" >>
    ELSE << "Lines " >> \o Decimal(start) \o << "-" >> \o Decimal(end)
            \o << " not covered by tests" >>

\* The inner loop of build_annotations over the ranges of one file.
RangeAnnotations(path, ranges) ==
    [k \in DOMAIN ranges |->
        Annotation(path, ranges[k][1], ranges[k][2],
                   annotation_message(ranges[k][1], ranges[k][2]))]

RECURSIVE build_annotations(_)
build_annotations(files) ==
    IF files = << >>
    THEN << >>
    ELSE IF Head(files).missed_lines = << >>
         THEN build_annotations(Tail(files))
         ELSE RangeAnnotations(Head(files).path,
                               coalesce_ranges(Head(files).missed_lines,
                                               all_instrumentable(Head(files))))
                 \o build_annotations(Tail(files))

\* The files of a diff coverage report: one entry for a path, its covered and
\* its missed lines disjoint and ascending.
ReportFiles ==
    { FileDiffCoverage(p, SortedSeq(C), SortedSeq(M)) :
        p \in Paths, C \in SUBSET (1..MaxAnnLine), M \in SUBSET (1..MaxAnnLine) }

InitAnnotations ==
    /\ NoStoreNoDiff
    /\ args \in SeqsUpTo(ReportFiles, MaxAnnFiles)
    /\ \A i \in DOMAIN args :
          /\ Range(args[i].covered_lines) \cap Range(args[i].missed_lines) = {}
          /\ \A j \in DOMAIN args : i # j => args[i].path # args[j].path
    /\ ret = NoReturn
    /\ lcov = LcovStart

BuildAnnotations ==
    /\ ~ret.done
    /\ ret' = Returned(build_annotations(args))
    /\ UNCHANGED << db, parser_vars, args, lcov >>

NextAnnotations == BuildAnnotations

SpecAnnotations == InitAnnotations /\ [][NextAnnotations]_vars

\* The positions in the annotations of those of the file of a path.
AnnotationsOf(annotations, path) ==
    { k \in DOMAIN annotations : annotations[k].path = path }

\* C12: build_annotations emits, for every file of the report with a missed
\* line, exactly one annotation for each range of its coalesced missed lines
\* and none for a file without a missed line; the annotations come in the
\* order of the files of the report and, within a file, in ascending order of
\* the ranges; the bounds of an annotation are those of its range and its
\* message is "Line N not covered by tests" for a range of one line and
\* "Lines A-B not covered by tests" otherwise.
C12_BuildAnnotations ==
    ret.done =>
        /\ \A i \in DOMAIN args :
              LET at == AnnotationsOf(ret.value, args[i].path)
                  ranges == coalesce_ranges(args[i].missed_lines,
                                            all_instrumentable(args[i]))
              IN /\ args[i].missed_lines = << >> => at = {}
                 /\ Cardinality(at) = Len(ranges)
                 /\ \A r \in DOMAIN ranges :
                       \E k \in at :
                          /\ ret.value[k].start_line = ranges[r][1]
                          /\ ret.value[k].end_line = ranges[r][2]
                 /\ \A j \in DOMAIN args :
                       i < j => \A k \in at :
                          \A n \in AnnotationsOf(ret.value, args[j].path) : k < n
        /\ \A k \in DOMAIN ret.value :
              LET a == ret.value[k]
              IN /\ \E i \in DOMAIN args : args[i].path = a.path
                 /\ k > 1 /\ ret.value[k - 1].path = a.path
                       => ret.value[k - 1].end_line < a.start_line
                 /\ a.start_line = a.end_line
                       => a.message = << "Line " >> \o Decimal(a.start_line)
                                         \o << " not covered by tests" >>
                 /\ a.start_line # a.end_line
                       => a.message = << "Lines " >> \o Decimal(a.start_line)
                                         \o << "-" >> \o Decimal(a.end_line)
                                         \o << " not covered by tests" >>

\* A report of two files with missed lines, one of them with a range of
\* several lines and a range of one line.
C12_Witness ==
    /\ ret.done
    /\ Len(args) = 2
    /\ \A i \in DOMAIN args : args[i].missed_lines # << >>
    /\ \E k \in DOMAIN ret.value :
          /\ k < Len(ret.value)
          /\ ret.value[k].path = ret.value[k + 1].path
          /\ ret.value[k].start_line # ret.value[k].end_line
          /\ ret.value[k + 1].start_line = ret.value[k + 1].end_line

(***************************************************************************)
(* The parsers at work: the parser of the detected format reads its input. *)
(***************************************************************************)

\* The format that was detected and the events of an XML input; the input
\* of the LCOV parser is read line by line.
InitParsers ==
    /\ NoStoreNoDiff
    /\ \/ args = [format |-> "lcov", events |-> << >>]
       \/ \E k \in 0..MaxXmlEvents : \E events \in [1..k -> CoberturaEvents] :
             args = [format |-> "cobertura", events |-> events]
       \/ \E k \in 0..MaxXmlEvents : \E events \in [1..k -> CloverEvents] :
             args = [format |-> "clover", events |-> events]
    /\ ret = NoReturn
    /\ lcov = LcovStart

\* read_line returned a line: one turn of the loop of
\* parse_streaming_reader.
LcovReadLine(line) ==
    /\ args.format = "lcov"
    /\ ~lcov.eof
    /\ Len(lcov.text) < MaxLcovLines
    /\ lcov' = [LcovLine(lcov, Trim(line)) EXCEPT !.text = Append(lcov.text, line)]
    /\ UNCHANGED << db, parser_vars, args, ret >>

\* read_line returned 0: the loop ends and the file in progress is emitted.
LcovEof ==
    /\ args.format = "lcov"
    /\ ~lcov.eof
    /\ lcov' = [TakeAndEmit(lcov) EXCEPT !.eof = TRUE]
    /\ UNCHANGED << db, parser_vars, args, ret >>

\* The Cobertura parser reads its whole input and returns the files.
CoberturaParse ==
    /\ args.format = "cobertura"
    /\ ~ret.done
    /\ ret' = Returned(cobertura_parse(args.events))
    /\ UNCHANGED << db, parser_vars, args, lcov >>

\* The Clover parser reads its whole input, emitting the files.
CloverParse ==
    /\ args.format = "clover"
    /\ ~ret.done
    /\ ret' = Returned(clover_parse(args.events))
    /\ UNCHANGED << db, parser_vars, args, lcov >>

NextParsers ==
    \/ \E line \in LcovAlphabet : LcovReadLine(line)
    \/ LcovEof
    \/ CoberturaParse
    \/ CloverParse

SpecParsers == InitParsers /\ [][NextParsers]_vars

\* The files a finished parse handed to emit.
Emitted == IF args.format = "lcov" THEN lcov.emitted ELSE ret.value

Finished == IF args.format = "lcov" THEN lcov.eof ELSE ret.done

\* The paths of the "SF:" lines of an LCOV text, in their order.
RECURSIVE SFPaths(_)
SFPaths(text) ==
    IF text = << >> THEN << >>
    ELSE IF StartsWith(Head(text), << "S", "F", ":" >>)
         THEN << StripPrefix(Head(text), << "S", "F", ":" >>) >>
                 \o SFPaths(Tail(text))
         ELSE SFPaths(Tail(text))

\* C13: a parser hands exactly one FileCoverage to emit for every source
\* file of its input, in the order of their appearance and none dropped; for
\* LCOV every "SF:" line yields one FileCoverage, whether its record is
\* closed by "end_of_record", by the next "SF:" or by the end of the input.
C13_EmitOncePerFile ==
    (args.format = "lcov" /\ lcov.eof) =>
        [i \in DOMAIN lcov.emitted |-> lcov.emitted[i].path] = SFPaths(lcov.text)

\* C14: every LineCoverage a parser emits has a line number of at least 1
\* and a hit count that is not negative.
C14_EmittedLinesValid ==
    Finished =>
        \A i \in DOMAIN Emitted : \A k \in DOMAIN Emitted[i].lines :
            /\ Emitted[i].lines[k].line_number >= 1
            /\ Emitted[i].lines[k].hit_count >= 0

\* C16: the lines of every FileCoverage handed to emit are in ascending
\* order of line number, whatever the order of the input.
C16_EmittedLinesAscending ==
    Finished =>
        \A i \in DOMAIN Emitted : \A k \in DOMAIN Emitted[i].lines :
            k > 1 => Emitted[i].lines[k - 1].line_number
                        <= Emitted[i].lines[k].line_number

\* The branch indices of a line of a file, in the order of its entries.
BranchIndicesOn(file, line_number) ==
    { k \in DOMAIN file.branches : file.branches[k].line_number = line_number }

C15_WitnessRepeatedElement ==
    /\ Finished
    /\ args.format = "clover"
    /\ \E i \in DOMAIN Emitted : \E b \in DOMAIN Emitted[i].branches :
          Emitted[i].branches[b].branch_index >= 4

(***************************************************************************)
(* Format detection at work.                                               *)
(***************************************************************************)
InitDetect ==
    /\ NoStoreNoDiff
    /\ \E file_name \in FileNames, k \in 0..MaxHeadLines :
          \E head \in [1..k -> HeadLines] :
             args = [file_name |-> file_name, head |-> head]
    /\ ret = NoReturn
    /\ lcov = LcovStart

\* parsers::detect(file_path, &head) of ingest
Detect ==
    /\ ~ret.done
    /\ ret' = Returned(detect(args.file_name, args.head))
    /\ UNCHANGED << db, parser_vars, args, lcov >>

NextDetect == Detect

SpecDetect == InitDetect /\ [][NextDetect]_vars

\* The parsers in the order of the claim.
DetectionOrder ==
    << "lcov", "gocover", "istanbul", "jacoco", "cobertura", "clover" >>

Accepting(file_name, head) ==
    { i \in DOMAIN DetectionOrder : can_parse(DetectionOrder[i], file_name, head) }

\* C17: the detected format is that of the first parser, in the order LCOV,
\* Go cover, Istanbul, JaCoCo, Cobertura, Clover, whose can_parse accepts the
\* file; an XML head with "<coverage" and "clover=" that no parser before
\* them accepts is Clover and never Cobertura, one with "<coverage" and
\* without "clover=" is Cobertura; a file no parser accepts is unknown.
C17_FormatDetection ==
    ret.done =>
        LET xml_coverage ==
                /\ looks_like_xml(args.head)
                /\ HeadContains(args.head, << "<", "c", "o", "v", "e", "r", "a", "g", "e" >>)
                /\ \A i \in 1..4 : i \notin Accepting(args.file_name, args.head)
        IN /\ Accepting(args.file_name, args.head) = {} <=> ret.value = "unknown"
           /\ ret.value # "unknown"
                 => can_parse(ret.value, args.file_name, args.head)
           /\ xml_coverage /\ HeadContains(args.head, << "c", "l", "o", "v", "e", "r", "=" >>)
                 => ret.value = "clover"
           /\ xml_coverage /\ ~HeadContains(args.head, << "c", "l", "o", "v", "e", "r", "=" >>)
                 => ret.value = "cobertura"
           /\ \A i \in 1..4 :
                 (i = SetMin(Accepting(args.file_name, args.head) \cup {7}))
                    => ret.value = DetectionOrder[i]

\* The paths of the store that have a line coverage row.
PathsWithLines(s) ==
    { sf.path : sf \in { x \in s.source_file :
                           \E lc \in s.line_coverage : lc.source_file_id = x.id } }

\* C18: get_file_line_rate returns Ok(None), not an error, for every path
\* that has no line coverage in the store, and Ok(Some(covered/total)) with
\* covered <= total and total > 0 for every other path.
C18_FileLineRateTotal ==
    \A path \in Paths :
        /\ get_file_line_rate(db, path).ok
        /\ path \notin PathsWithLines(db) => ~get_file_line_rate(db, path).some
        /\ path \in PathsWithLines(db) =>
              /\ get_file_line_rate(db, path).some
              /\ get_file_line_rate(db, path).total > 0
              /\ get_file_line_rate(db, path).covered
                    <= get_file_line_rate(db, path).total

(***************************************************************************)
(* The formatters of the diff coverage report (report.rs).  A text is the  *)
(* sequence of its pieces: the literals of the format strings and the      *)
(* digits of the numbers.  The dash of the second message is written "--"  *)
(* the emoji of the last one is left out and the backquotes of the         *)
(* Markdown are written as apostrophes.                                    *)
(***************************************************************************)
MaxFormatLine == 3

MaxDiffFiles == 2

\* A rate is kept as the pair covered/total.
Rate(covered, total) == [covered |-> covered, total |-> total]

NoRate == [some |-> FALSE, value |-> Rate(0, 0)]

\* The rounding of {:.N} formatting: to the nearest, a tie to the even one.
RoundHalfEven(num, den) ==
    IF 2 * (num % den) < den THEN num \div den
    ELSE IF 2 * (num % den) > den THEN (num \div den) + 1
    ELSE IF (num \div den) % 2 = 0 THEN num \div den
    ELSE (num \div den) + 1

\* format!("{:.1}", rate(covered, total) * 100.0); rate is 0.0 for total 0.
Percent1(r) ==
    IF r.total = 0 THEN << "0", ".", "0" >>
    ELSE Decimal(RoundHalfEven(1000 * r.covered, r.total) \div 10)
            \o << "." >>
            \o Decimal(RoundHalfEven(1000 * r.covered, r.total) % 10)

\* format!("{:.0}", rate * 100.0)
Percent0(r) ==
    IF r.total = 0 THEN << "0" >>
    ELSE Decimal(RoundHalfEven(100 * r.covered, r.total))

\* FileDiffCoverage::rate
FileRate(f) == Rate(Len(f.covered_lines), Len(f.covered_lines) + Len(f.missed_lines))

\* a.rate().partial_cmp(&b.rate()) is not Greater
RateNotAbove(a, b) ==
    IF a.total = 0 THEN TRUE
    ELSE IF b.total = 0 THEN a.covered = 0
    ELSE a.covered * b.total <= b.covered * a.total

\* files_with_misses.sort_by(..), a stable sort by rate
RECURSIVE SortByRate(_)
SortByRate(files) ==
    IF files = << >> THEN << >>
    ELSE LET sorted == SortByRate(SubSeq(files, 1, Len(files) - 1))
             x == files[Len(files)]
             n == Cardinality({ i \in DOMAIN sorted :
                                  RateNotAbove(FileRate(sorted[i]), FileRate(x)) })
         IN SubSeq(sorted, 1, n) \o << x >> \o SubSeq(sorted, n + 1, Len(sorted))

FilesWithMisses(report) ==
    SortByRate(SelectSeq(report.files, LAMBDA f : f.missed_lines # << >>))

\* Vec<String>::join(", ")
RECURSIVE Join(_)
Join(texts) ==
    IF texts = << >> THEN << >>
    ELSE IF Len(texts) = 1 THEN texts[1]
    ELSE texts[1] \o << ", " >> \o Join(Tail(texts))

format_line_ranges(lines, instrumentable) ==
    Join([k \in DOMAIN coalesce_ranges(lines, instrumentable) |->
            LET r == coalesce_ranges(lines, instrumentable)[k]
            IN IF r[1] = r[2] THEN Decimal(r[1])
               ELSE Decimal(r[1]) \o << "-" >> \o Decimal(r[2])])

format_line_ranges_linked(lines, instrumentable, sha, path) ==
    Join([k \in DOMAIN coalesce_ranges(lines, instrumentable) |->
            LET r == coalesce_ranges(lines, instrumentable)[k]
            IN IF r[1] = r[2]
               THEN << "[" >> \o Decimal(r[1]) \o << "](../blob/" >> \o sha
                      \o << "/", path, "#L" >> \o Decimal(r[1]) \o << ")" >>
               ELSE << "[" >> \o Decimal(r[1]) \o << "-" >> \o Decimal(r[2])
                      \o << "](../blob/" >> \o sha \o << "/", path, "#L" >>
                      \o Decimal(r[1]) \o << "-L" >> \o Decimal(r[2])
                      \o << ")" >>])

TextFileLine(f) ==
    << "  ", f.path, "  " >> \o Decimal(Len(f.covered_lines)) \o << "/" >>
      \o Decimal(Len(f.covered_lines) + Len(f.missed_lines)) \o << " (" >>
      \o Percent1(FileRate(f)) \o << "%)  missed: " >>
      \o format_line_ranges(f.missed_lines, all_instrumentable(f))
      \o << "\n" >>

TextProjectLine(report) ==
    IF report.total_rate.some
    THEN << "\n", "Full project coverage: " >>
            \o Percent1(report.total_rate.value) \o << "%\n" >>
    ELSE << >>

\* TextFormatter::format
TextFormat(report) ==
    IF report.diff_files = 0
    THEN << "No added lines found in diff.\n" >>
    ELSE IF report.total_instrumentable = 0
    THEN Decimal(report.diff_lines) \o << " lines added across " >>
            \o Decimal(report.diff_files)
            \o << " files -- none are instrumentable.\n" >>
    ELSE << "Diff coverage: " >>
            \o Percent1(Rate(report.total_covered, report.total_instrumentable))
            \o << "% (" >> \o Decimal(report.total_covered) \o << "/" >>
            \o Decimal(report.total_instrumentable) \o << " lines covered)\n" >>
            \o (IF FilesWithMisses(report) # << >> THEN << "\n" >> ELSE << >>)
            \o Concat([k \in DOMAIN FilesWithMisses(report) |->
                          TextFileLine(FilesWithMisses(report)[k])])
            \o TextProjectLine(report)

MarkdownHeader(report) ==
    << "### Diff Coverage: " >>
      \o Percent1(Rate(report.total_covered, report.total_instrumentable))
      \o << "%\n\n", "**" >> \o Decimal(report.total_covered)
      \o << "** of **" >> \o Decimal(report.total_instrumentable)
      \o << "** diff lines covered" >>
      \o (IF report.sha.some
          THEN << " (" >>
                 \o (IF Len(report.sha.value) > 7
                     THEN SubSeq(report.sha.value, 1, 7) ELSE report.sha.value)
                 \o << ")" >>
          ELSE << >>)
      \o << "\n" >>

MarkdownTableRow(report, f) ==
    << "| '", f.path, "' | " >> \o Decimal(Len(f.missed_lines)) \o << " | " >>
      \o Percent0(FileRate(f)) \o << "% | " >>
      \o Percent0(MapGet(report.file_rates, f.path, Rate(0, 0)))
      \o << "% |\n" >>

MarkdownMissedLine(report, f) ==
    << "**'", f.path, "'**: " >>
      \o (IF report.sha.some
          THEN format_line_ranges_linked(f.missed_lines, all_instrumentable(f),
                                         report.sha.value, f.path)
          ELSE format_line_ranges(f.missed_lines, all_instrumentable(f)))
      \o << "\n\n" >>

MarkdownFiles(report, files_with_misses) ==
    IF files_with_misses = << >>
    THEN << "\nAll diff lines are covered!\n" >>
    ELSE << "\n| File | Missed | Diff | Total | \n",
            "|:-----|-------:|-----:|------:|\n" >>
           \o Concat([k \in DOMAIN files_with_misses |->
                         MarkdownTableRow(report, files_with_misses[k])])
           \o << "\n<details>\n<summary>Missed lines</summary>\n\n" >>
           \o Concat([k \in DOMAIN files_with_misses |->
                         MarkdownMissedLine(report, files_with_misses[k])])
           \o << "</details>\n" >>

\* MarkdownFormatter::format
MarkdownFormat(report) ==
    MarkdownHeader(report)
      \o MarkdownFiles(report, FilesWithMisses(report))
      \o << "\n" >>
      \o (IF report.total_rate.some
          THEN << "<sub>Full project coverage: **" >>
                 \o Percent1(report.total_rate.value) \o << "%**</sub>\n" >>
          ELSE << >>)
      \o << "<sub>[covrs](https://github.com/scttnlsn/covrs)</sub>\n" >>

\* The files of a report of build_report: in the order of their paths, each
\* with a line that is covered or missed.
FormatFiles ==
    { FileDiffCoverage(p, SortedSeq(C), SortedSeq(M)) :
        p \in Paths, C \in SUBSET (1..MaxFormatLine),
        M \in SUBSET (1..MaxFormatLine) }

\* build_report: the fields of the report of a diff of diff_files files with
\* the lines of the files and others more that are not instrumentable.
DiffCoverageReport(files, diff_files, others, total_rate, sha) ==
    [diff_files |-> diff_files,
     diff_lines |-> SumLen(files, "covered_lines") + SumLen(files, "missed_lines")
                      + others,
     files |-> files,
     total_covered |-> SumLen(files, "covered_lines"),
     total_instrumentable |->
         SumLen(files, "covered_lines") + SumLen(files, "missed_lines"),
     total_rate |-> total_rate,
     file_rates |-> [p \in { files[i].path : i \in DOMAIN files } |-> Rate(1, 2)],
     sha |-> sha]

InitFormat ==
    /\ NoStoreNoDiff
    /\ \E k \in 0..MaxDiffFiles, diff_files \in 0..MaxDiffFiles,
          others \in 0..MaxDiffFiles,
          total_rate \in { NoRate, [some |-> TRUE, value |-> Rate(1, 2)] },
          sha \in { NoAttr, [some |-> TRUE,
                             value |-> << "a", "b", "c", "d", "e", "f", "0", "1" >>] },
          style \in { "text", "markdown" } :
          \E files \in [1..k -> FormatFiles] :
             /\ \A i \in DOMAIN files :
                   /\ Range(files[i].covered_lines)
                         \cap Range(files[i].missed_lines) = {}
                   /\ files[i].covered_lines \o files[i].missed_lines # << >>
                   /\ \A j \in DOMAIN files :
                         i < j => PathRank(files[i].path) < PathRank(files[j].path)
             /\ k <= diff_files
             /\ diff_files - k <= others
             /\ (diff_files = 0) => (others = 0)
             /\ (k > 0) => total_rate.some
             /\ args = [style |-> style,
                        report |-> DiffCoverageReport(files, diff_files, others,
                                                      total_rate, sha)]
    /\ ret = NoReturn
    /\ lcov = LcovStart

FormatText ==
    /\ args.style = "text"
    /\ ~ret.done
    /\ ret' = Returned(TextFormat(args.report))
    /\ UNCHANGED << db, parser_vars, args, lcov >>

FormatMarkdown ==
    /\ args.style = "markdown"
    /\ ~ret.done
    /\ ret' = Returned(MarkdownFormat(args.report))
    /\ UNCHANGED << db, parser_vars, args, lcov >>

NextFormat == FormatText \/ FormatMarkdown

SpecFormat == InitFormat /\ [][NextFormat]_vars

\* C19: in the Text and in the Markdown style alike, a report with no added
\* diff line renders the "No added lines found" message, a report with added
\* lines none of which is instrumentable renders the "N lines added across M
\* files -- none are instrumentable" message, and the "all covered" message is
\* rendered only when there are instrumentable lines and no file has a missed
\* line.
C19_FormatterCases ==
    ret.done =>
        /\ args.report.diff_lines = 0
              => "No added lines found in diff.\n" \in Range(ret.value)
        /\ (args.report.diff_lines > 0 /\ args.report.total_instrumentable = 0)
              => \E i \in DOMAIN ret.value :
                    /\ ret.value[i] = " files -- none are instrumentable.\n"
                    /\ SubSeq(ret.value, 1, i - 1)
                          = Decimal(args.report.diff_lines)
                              \o << " lines added across " >>
                              \o Decimal(args.report.diff_files)
        /\ "\nAll diff lines are covered!\n" \in Range(ret.value)
              => /\ args.report.total_instrumentable > 0
                 /\ \A i \in DOMAIN args.report.files :
                       args.report.files[i].missed_lines = << >>

(***************************************************************************)
(* Path normalization at work.                                             *)
(***************************************************************************)
InitNormalize ==
    /\ NoStoreNoDiff
    /\ \E path \in IngestPaths, root \in IngestRoots :
          args = [path |-> path, root |-> root]
    /\ ret = NoReturn
    /\ lcov = LcovStart

\* The emit closure of ingest normalizes the path of a file before it is
\* handed to the store.
NormalizeFilePath ==
    /\ ~ret.done
    /\ ret' = Returned(NormalizeAtIngest(args.path, args.root))
    /\ UNCHANGED << db, parser_vars, args, lcov >>

NextNormalize == NormalizeFilePath

SpecNormalize == InitNormalize /\ [][NextNormalize]_vars

\* The path is absolute and is the root or goes on with a separator behind
\* the root, the separators at the end of the root aside.
UnderRoot(path, root) ==
    /\ StartsWith(path, << "/" >>)
    /\ \/ path = TrimEndSlashes(root)
       \/ StartsWith(path, TrimEndSlashes(root) \o << "/" >>)

\* C20: with a root, the path of a file that is absolute and starts with the
\* root component by component is stored relative to the root; every other
\* path is stored unchanged, so for the root /r/p the path /r/p2/x; with no
\* root every path is stored unchanged.
C20_PathNormalization ==
    ret.done =>
        /\ ~args.root.some => ret.value = args.path
        /\ (args.root.some /\ ~UnderRoot(args.path, args.root.value))
              => ret.value = args.path
        /\ (args.root.some /\ UnderRoot(args.path, args.root.value))
              => /\ ~StartsWith(ret.value, << "/" >>)
                 /\ ret.value = TrimStartSlashes(
                        SubSeq(args.path, Len(TrimEndSlashes(args.root.value)) + 1,
                               Len(args.path)))
        /\ (args.root = [some |-> TRUE, value |-> << "/", "r", "/", "p" >>] /\ args.path = << "/", "r", "/", "p", "2" >> \o << "/", "x" >>)
              => ret.value = << "/", "r", "/", "p", "2" >> \o << "/", "x" >>

\* A path under the root was made relative.
C20_Witness ==
    /\ ret.done
    /\ args.root = [some |-> TRUE, value |-> << "/", "r", "/", "p" >>]
    /\ args.path = << "/", "r", "/", "p" >> \o << "/", "x", "/", "y" >>
    /\ ret.value = Tail(<< "/", "x", "/", "y" >>)

(***************************************************************************)
(* parse_diff over any text, its line counter a u32.                       *)
(***************************************************************************)
\* parse_diff is entered: args is the text read so far and the build's
\* overflow checks, ret the locals of the loop.
InitDiffU32 ==
    /\ NoStoreNoDiff
    /\ lcov = LcovStart
    /\ \E overflow_checks \in BOOLEAN :
          args = [text |-> << >>, overflow_checks |-> overflow_checks]
    /\ ret = Returned(ParseDiffStart)

\* One iteration of the loop of parse_diff over the next line of the text;
\* there is none after a panic.
ParseDiffLine(line) ==
    /\ Len(args.text) < MaxU32Lines
    /\ ~ret.value.panicked
    /\ args' = [args EXCEPT !.text = Append(@, line)]
    /\ ret' = Returned(parse_line_u32(ret.value, line, args.overflow_checks))
    /\ UNCHANGED << db, parser_vars, lcov >>

NextDiffU32 == \E line \in U32DiffLines : ParseDiffLine(line)

SpecDiffU32 == InitDiffU32 /\ [][NextDiffU32]_vars

\* C21: parse_diff returns normally for every text: it does not panic and
\* its u32 counter of new-file lines does not overflow, whatever the hunk
\* headers and the body lines are.
C21_ParseDiffTotal ==
    ~ret.value.panicked /\ ~ret.value.wrapped

(***************************************************************************)
(* insert_coverage_tx one push_row at a time.  ret is the state of the     *)
(* call: the locals of insert_coverage_tx and, for the claims, the params  *)
(* pushed to and written from each batch.                                  *)
(***************************************************************************)
MaxPushes == 3

BatchNames == {"lines", "branches", "functions"}

\* The place of a loop of the emit closure among its three loops.
LoopRank(which) ==
    CASE which = "lines" -> 1 [] which = "branches" -> 2
      [] which = "functions" -> 3

\* The rows the loops of the emit closure push for file file_id.
PushValues(which, report_id, file_id) ==
    CASE which = "lines" ->
            { << report_id, file_id, x.line_number, x.hit_count >> :
                x \in LineCoverage }
      [] which = "branches" ->
            { << report_id, file_id, x.line_number, x.branch_index,
                 x.hit_count >> : x \in BranchCoverage }
      [] which = "functions" ->
            { << report_id, file_id, x.name, opt_u32(x.start_line),
                 opt_u32(x.end_line), x.hit_count >> : x \in FunctionCoverage }

NoParams == [which \in BatchNames |-> << >>]

\* insert_coverage_tx up to with_files: the report row is inserted and the
\* three batches are new.
InsertCoverageTxStart(r) ==
    [pc |-> "with_files", ok |-> TRUE, store |-> r.store, cache |-> << >>,
     report_id |-> r.report_id, file_id |-> 0, loop |-> "lines",
     lines |-> BatchInsertNew("line_coverage", 4),
     branches |-> BatchInsertNew("branch_coverage", 5),
     functions |-> BatchInsertNew("function_coverage", 6),
     pushes |-> 0, pushed |-> NoParams, written |-> NoParams,
     committed |-> FALSE, drop_flushed |-> TRUE]

\* A `?` or the end of insert_coverage_tx: the function returns and its
\* three batches are dropped; the caller commits when it returned Ok.
ReturnAndDrop(t) ==
    [t EXCEPT !.pc = "returned", !.drop_flushed = DropFlushed(t),
              !.committed = t.ok]

\* What a batch has written once the call went from t to t1: the params it
\* held when its flush executed.
Written(t, t1, which, held) ==
    IF t1.ok /\ t1[which].rows = 0 /\ held # << >>
    THEN t.written[which] \o held
    ELSE t.written[which]

InitBatch ==
    /\ NoStoreNoDiff
    /\ lcov = LcovStart
    /\ \E fault \in {"none", "flush"} : args = [fault |-> fault]
    /\ ret = Returned(InsertCoverageTxStart(InsertReport(EmptyStore, "r1")))

\* with_files calls the emit closure for the next file: its source_file id.
EmitNextFile(path) ==
    LET t == ret.value
        g == get_or_insert_source_file_owned(t.store, path, t.cache)
    IN /\ t.pc = "with_files"
       /\ ret' = Returned([t EXCEPT !.store = g.store, !.cache = g.cache,
                                     !.file_id = g.id, !.loop = "lines"])
       /\ UNCHANGED << db, parser_vars, args, lcov >>

\* The state after `batch.push_row(values)?` went from t to t1.
AfterPushRow(t, t1, which, values) ==
    LET t2 == [t1 EXCEPT !.loop = which, !.pushes = @ + 1,
                         !.pushed[which] = @ \o values,
                         !.written[which] =
                             Written(t, t1, which, t[which].params \o values)]
    IN IF t1.ok THEN t2 ELSE ReturnAndDrop(t2)

\* One iteration of a loop of the emit closure: `batch.push_row(values)?`.
PushRow(which, values) ==
    LET t == ret.value
    IN /\ t.pc = "with_files"
       /\ t.file_id # 0
       /\ t.pushes < MaxPushes
       /\ LoopRank(which) >= LoopRank(t.loop)
       /\ values \in PushValues(which, t.report_id, t.file_id)
       /\ ret' = Returned(AfterPushRow(t,
                    AfterBatch(t, which,
                        BatchPushRow(t[which], t.store, values,
                                     args.fault = "flush" /\ which = "lines")),
                    which, values))
       /\ UNCHANGED << db, parser_vars, args, lcov >>

\* The producer returns an error (malformed input): `with_files(..)?`.
ProducerError ==
    LET t == ret.value
    IN /\ t.pc = "with_files"
       /\ ret' = Returned(ReturnAndDrop([t EXCEPT !.ok = FALSE]))
       /\ UNCHANGED << db, parser_vars, args, lcov >>

\* The state after the three final flushes went from t to t1.
AfterFinalFlush(t, t1) ==
    ReturnAndDrop([t1 EXCEPT !.written =
                      [which \in BatchNames |->
                          Written(t, t1, which, t[which].params)]])

\* The producer is done: the three final flushes and the return.
FlushAndReturn ==
    LET t == ret.value
    IN /\ t.pc = "with_files"
       /\ ret' = Returned(AfterFinalFlush(t, FinalFlush(t, args.fault)))
       /\ UNCHANGED << db, parser_vars, args, lcov >>

NextBatch ==
    \/ \E path \in Paths : EmitNextFile(path)
    \/ \E which \in BatchNames :
          \E values \in PushValues(which, ret.value.report_id,
                                   ret.value.file_id) : PushRow(which, values)
    \/ ProducerError
    \/ FlushAndReturn

SpecBatch == InitBatch /\ [][NextBatch]_vars

\* The batches of the call neither hold INSERT_BATCH_SIZE rows nor params
\* that are not whole rows.
BatchWithinSize(t) ==
    \A which \in BatchNames :
        /\ t[which].rows < INSERT_BATCH_SIZE
        /\ Len(t[which].params) = t[which].rows * t[which].cols

\* C22: on every path of insert_coverage_tx no batch is dropped with
\* unflushed rows; after every push_row the batch holds fewer than
\* INSERT_BATCH_SIZE rows and rows * cols params; on the success path every
\* pushed row has been written once, in push order, before the commit.
C22_BatchFlushDiscipline ==
    /\ ret.value.pc = "returned" => ret.value.drop_flushed
    /\ ret.value.pc = "with_files" => BatchWithinSize(ret.value)
    /\ ret.value.committed => ret.value.written = ret.value.pushed

(***************************************************************************)
(* The missed ranges of a diff coverage run: the store of one ingested     *)
(* report, diff_coverage for the added lines of a diff, and the ranges     *)
(* build_annotations and the formatters make of its files.                 *)
(***************************************************************************)
MaxRangeLine == 4

RangeLineNumbers == 1..MaxRangeLine

\* The file a parser emits for path "a": its instrumentable lines in
\* ascending order, hits[l] = None for a line that is not instrumentable.
RangeFile(hits) ==
    [path |-> "a",
     lines |-> [i \in 1..Cardinality({ l \in RangeLineNumbers : hits[l] # None }) |->
                  LET l == SortedSeq({ k \in RangeLineNumbers : hits[k] # None })[i]
                  IN [line_number |-> l, hit_count |-> hits[l]]],
     branches |-> << >>, functions |-> << >>]

\* The ranges the formatters print for the files of a report
\* (format_line_ranges and format_line_ranges_linked coalesce them).
MissedRanges(files) ==
    [i \in DOMAIN files |->
        [path |-> files[i].path,
         ranges |-> coalesce_ranges(files[i].missed_lines,
                                    all_instrumentable(files[i]))]]

\* covrs ingest of a coverage file for "a" into the empty store.
IngestCoverage(hits) ==
    /\ db.report = {}
    /\ db' = ingest(db, TRUE, "r1", FALSE, << RangeFile(hits) >>, "none").store
    /\ UNCHANGED << parser_vars, call_vars >>

\* The outputs of a diff coverage run over the files diff_coverage returned.
DiffOutputs(files) ==
    [files |-> files, annotations |-> build_annotations(files),
     missed |-> MissedRanges(files)]

\* covrs diff-coverage for a diff that adds the lines added to "a".
DiffCoverageRun(added) ==
    /\ db.report # {}
    /\ ~ret.done
    /\ args' = [diff_lines |-> [p \in {"a"} |-> SortedSeq(added)]]
    /\ ret' = Returned(DiffOutputs(diff_coverage(db, args'.diff_lines).files))
    /\ UNCHANGED << db, parser_vars, lcov >>

NextRanges ==
    \/ \E hits \in [RangeLineNumbers -> Hits \cup {None}] : IngestCoverage(hits)
    \/ \E added \in SUBSET RangeLineNumbers : DiffCoverageRun(added)

SpecRanges == Init /\ [][NextRanges]_vars

\* Line l of the file at path is instrumentable and covered in store s.
CoveredInStore(s, path, l) ==
    /\ HitCounts(s, path, l) # {}
    /\ EffectiveHit(s, path, l) > 0

\* C23: no missed range of a diff coverage output - annotation or formatter
\* range - spans a line that the store records as instrumentable and
\* covered, whether or not that line is one of the diff's added lines.
C23_NoRangeOverCoveredLine ==
    ret.done =>
        /\ \A i \in DOMAIN ret.value.annotations :
              LET a == ret.value.annotations[i]
              IN \A l \in a.start_line..a.end_line :
                    ~CoveredInStore(db, a.path, l)
        /\ \A i \in DOMAIN ret.value.missed :
              \A k \in DOMAIN ret.value.missed[i].ranges :
                 LET r == ret.value.missed[i].ranges[k]
                 IN \A l \in r[1]..r[2] :
                       ~CoveredInStore(db, ret.value.missed[i].path, l)

\* The same for the covered lines that the diff adds.
C23_NoRangeOverCoveredDiffLine ==
    ret.done =>
        \A i \in DOMAIN ret.value.annotations :
           LET a == ret.value.annotations[i]
           IN \A l \in a.start_line..a.end_line :
                 l \in Range(args.diff_lines[a.path])
                     => ~CoveredInStore(db, a.path, l)

(***************************************************************************)
(* The two modes of the queries.  The mode is chosen from the row count    *)
(* of report alone, and the statements of both modes read the coverage        *)
(* tables and source_file only: the union-mode result on a store is the    *)
(* result on that store with one more row in report.                       *)
(***************************************************************************)
UnionMode(s) ==
    [s EXCEPT !.report = @ \cup {[id |-> 0, name |-> "union mode"]}]

\* What the five queries return on s with the MAX(hit_count) GROUP BY
\* sources.  get_summary bails on a store without report before it
\* chooses its sources.
UnionModeResults(s) ==
    [QueryResults(UnionMode(s)) EXCEPT
        !.summary = IF s.report = {} THEN get_summary(s) ELSE @]

\* C24: with at most one report the queries, which then read the tables
\* directly, return what the MAX(hit_count) GROUP BY sources would return
\* on the same store; the mode flag is count(reports) > 1.
C24_QueryModeEquivalence ==
    /\ needs_union(db) = (Cardinality(db.report) > 1)
    /\ Cardinality(db.report) <= 1
          => QueryResults(db) = UnionModeResults(db)

\* One report that holds coverage of lines and of a branch or a function.
C24_Witness ==
    /\ Cardinality(db.report) = 1
    /\ ~needs_union(db)
    /\ \E x \in db.line_coverage : x.hit_count > 0
    /\ db.branch_coverage \cup db.function_coverage # {}
    /\ QueryResults(db) = UnionModeResults(db)

(***************************************************************************)
(* src/github.rs: post_check_run, one request at a time.  An annotation is *)
(* its place in the list; the title and the summary, the same in every     *)
(* request, are left out of the bodies.                                    *)
(***************************************************************************)
MaxAnnotations == 151

MAX_ANNOTATIONS_PER_REQUEST == 50

\* The responses of the API: a success whose body parses, a success whose
\* body does not parse as a CheckRun, an error status or transport error.
Responses == {"ok", "bad json", "error"}

\* let chunks = if annotations.is_empty() { vec![&[]] } else { chunks(50) }
CheckRunChunks(annotations) ==
    IF annotations = << >> THEN << << >> >>
    ELSE Chunks(annotations, MAX_ANNOTATIONS_PER_REQUEST)

\* The body of the POST that creates the check run.
PostBody(first_chunk, is_single_request) ==
    [method |-> "POST", annotations |-> first_chunk,
     status |-> IF is_single_request THEN "completed" ELSE "in_progress",
     conclusion |-> IF is_single_request THEN "neutral" ELSE "absent"]

\* The mutant of PatchBody: no PATCH completes the run.
PatchBodyNeverCompleted(chunk, is_last) ==
    [method |-> "PATCH", annotations |-> chunk, status |-> "absent",
     conclusion |-> "absent"]

\* The body of a PATCH to the check run: status and conclusion are set in
\* the last one only.
PatchBody(chunk, is_last) ==
    [method |-> "PATCH", annotations |-> chunk,
     status |-> IF is_last THEN "completed" ELSE "absent",
     conclusion |-> IF is_last THEN "neutral" ELSE "absent"]

\* post_check_run at its entry: no request is sent.
PostCheckRunStart ==
    [pc |-> "post", requests |-> << >>, result |-> "running"]

InitCheckRun ==
    /\ NoStoreNoDiff
    /\ lcov = LcovStart
    /\ \E n \in 0..MaxAnnotations : args = [annotations |-> [i \in 1..n |-> i]]
    /\ ret = Returned(PostCheckRunStart)

\* The first request and what follows its response: `check_response(..)?`
\* and, when more chunks are left, `resp.into_json()..?`.
PostCheckRun(response) ==
    LET t == ret.value
        chunks == CheckRunChunks(args.annotations)
        is_single_request == Len(chunks) = 1
        sent == Append(t.requests, PostBody(chunks[1], is_single_request))
    IN /\ t.pc = "post"
       /\ ret' = Returned(
            IF response = "error"
            THEN [pc |-> "returned", requests |-> sent, result |-> "Err"]
            ELSE IF is_single_request
            THEN [pc |-> "returned", requests |-> sent, result |-> "Ok"]
            ELSE IF response = "bad json"
            THEN [pc |-> "returned", requests |-> sent, result |-> "Err"]
            ELSE [pc |-> "patch", requests |-> sent, result |-> "running"])
       /\ UNCHANGED << db, parser_vars, args, lcov >>

\* One iteration of the loop over chunks[1..]: the PATCH of the next chunk.
PatchCheckRun(response) ==
    LET t == ret.value
        chunks == CheckRunChunks(args.annotations)
        rest == SubSeq(chunks, 2, Len(chunks))
        i == Len(t.requests) - 1
        is_last == i = Len(rest) - 1
        sent == Append(t.requests, PatchBody(rest[i + 1], is_last))
    IN /\ t.pc = "patch"
       /\ ret' = Returned(
            IF response = "error"
            THEN [pc |-> "returned", requests |-> sent, result |-> "Err"]
            ELSE IF is_last
            THEN [pc |-> "returned", requests |-> sent, result |-> "Ok"]
            ELSE [pc |-> "patch", requests |-> sent, result |-> "running"])
       /\ UNCHANGED << db, parser_vars, args, lcov >>

NextCheckRun ==
    \/ \E response \in Responses : PostCheckRun(response)
    \/ \E response \in Responses \ {"bad json"} : PatchCheckRun(response)

SpecCheckRun == InitCheckRun /\ [][NextCheckRun]_vars

\* max(1, ceil(n / 50))
RequestsFor(n) ==
    IF n = 0 THEN 1
    ELSE (n + MAX_ANNOTATIONS_PER_REQUEST - 1) \div MAX_ANNOTATIONS_PER_REQUEST

\* The annotations of the requests, one batch after the other.
RECURSIVE Batches(_)
Batches(requests) ==
    IF requests = << >> THEN << >>
    ELSE Head(requests).annotations \o Batches(Tail(requests))

\* C25: post_check_run issues max(1, ceil(n / 50)) requests, a POST and
\* then PATCHes in order, each of at most 50 annotations, the batches being
\* the list in order; the last request alone sets status completed with
\* conclusion neutral and the earlier ones leave the run in progress; after
\* a request that fails none is sent.
C25_CheckRunSubmission ==
    LET t == ret.value
        n == Len(args.annotations)
        sent == Len(t.requests)
    IN /\ \A k \in DOMAIN t.requests :
            /\ t.requests[k].method = IF k = 1 THEN "POST" ELSE "PATCH"
            /\ Len(t.requests[k].annotations) <= MAX_ANNOTATIONS_PER_REQUEST
            /\ t.requests[k].status = "completed"
                  <=> k = RequestsFor(n)
            /\ t.requests[k].conclusion = "neutral"
                  <=> k = RequestsFor(n)
            /\ k < RequestsFor(n)
                  => t.requests[k].status =
                        IF k = 1 THEN "in_progress" ELSE "absent"
       /\ sent <= RequestsFor(n)
       /\ Batches(t.requests) = SubSeq(args.annotations, 1, Len(Batches(t.requests)))
       /\ t.result = "Ok"
             => /\ sent = RequestsFor(n)
                /\ Batches(t.requests) = args.annotations
       /\ t.result = "Err" => t.pc = "returned"
       /\ t.pc = "returned" => ~ENABLED NextCheckRun

\* Three requests were sent for 101 annotations or more, the last one
\* completing the run.
C25_Witness ==
    /\ ret.value.result = "Ok"
    /\ Len(ret.value.requests) = 3
    /\ Len(args.annotations) > 2 * MAX_ANNOTATIONS_PER_REQUEST
    /\ ret.value.requests[3].status = "completed"
    /\ ret.value.requests[2].status = "absent"
    /\ ret.value.requests[1].status = "in_progress"

(***************************************************************************)
(* Cobertura: the occurrences of the lines of a class in the input.        *)
(***************************************************************************)
\* The <line> elements of each class of the input whose file is emitted (a
\* class closed by its end tag or by the end of the input), in order: the
\* number, the hits and the branch data of each element with a number.
RECURSIVE ClassOccurrences(_, _, _, _)
ClassOccurrences(events, open, occ, classes) ==
    IF events = << >>
    THEN (IF open THEN Append(classes, occ) ELSE classes)
    ELSE LET e == Head(events)
             number == ParseAttr(get_attr(e, "number"))
         IN CASE e.kind \in {"Start", "Empty"} /\ e.name = "class"
                    /\ get_attr(e, "filename").some ->
                    ClassOccurrences(Tail(events), TRUE, << >>, classes)
              [] e.kind \in {"Start", "Empty"} /\ e.name = "line"
                    /\ open /\ number.some ->
                    ClassOccurrences(Tail(events), open,
                        Append(occ,
                            [number |-> number.value,
                             hits |-> unwrap_or_0(ParseAttr(get_attr(e, "hits"))),
                             branch |-> get_attr(e, "branch") =
                                 [some |-> TRUE, value |-> << "t", "r", "u", "e" >>],
                             cond |-> get_attr(e, "condition-coverage")]),
                        classes)
              [] e.kind = "End" /\ e.name = "class" /\ open ->
                    ClassOccurrences(Tail(events), FALSE, << >>,
                                     Append(classes, occ))
              [] OTHER -> ClassOccurrences(Tail(events), open, occ, classes)

\* The occurrence carries '(c/t)' branch data with t > 0.
HasArms(o) ==
    /\ o.branch
    /\ o.cond.some
    /\ BranchReCaptures(o.cond.value).some
    /\ BranchReCaptures(o.cond.value).total > 0

\* The arms of occurrence o: t of them, the first c hit.
ArmsOf(o) ==
    IF HasArms(o)
    THEN [i \in 1..BranchReCaptures(o.cond.value).total |->
             [line_number |-> o.number, branch_index |-> i - 1,
              hit_count |-> IF i <= BranchReCaptures(o.cond.value).covered
                            THEN 1 ELSE 0]]
    ELSE << >>

\* The branch records of line n in file, in order.
ArmsOn(file, n) == SelectSeq(file.branches, LAMBDA b : b.line_number = n)

\* The lines of the file are the lines of occ, one entry each, with the
\* greatest of the hits of the line's occurrences.
DeduplicatedLines(file, occ) ==
    /\ { l.line_number : l \in Range(file.lines) } = { o.number : o \in Range(occ) }
    /\ \A n \in { o.number : o \in Range(occ) } :
          /\ Cardinality({ i \in DOMAIN file.lines :
                             file.lines[i].line_number = n }) = 1
          /\ \A i \in DOMAIN file.lines :
                file.lines[i].line_number = n
                    => file.lines[i].hit_count =
                          SetMax({ o.hits : o \in { x \in Range(occ) : x.number = n } })

\* The first occurrence of line n among occ that satisfies Test.
FirstOccurrence(occ, n, Test(_)) ==
    occ[SetMin({ i \in DOMAIN occ : occ[i].number = n /\ Test(occ[i]) })]

AnyOccurrence(o) == TRUE

MaxGoLines == 4

MaxGoLine == 7

GoLineNumbers == 0..MaxGoLine

NoBlock ==
    [some |-> FALSE, file |-> << >>, start_line |-> 0, end_line |-> 0, count |-> 0]

\* str::split_whitespace: the words of the text.
RECURSIVE split_whitespace(_)
split_whitespace(str) ==
    IF Trim(str) = << >> THEN << >>
    ELSE IF split_once(Trim(str), " ").some
    THEN << split_once(Trim(str), " ").left >>
            \o split_whitespace(split_once(Trim(str), " ").right)
    ELSE << Trim(str) >>

\* The position of the ':' of the last ".go:" of the line.
GoColonPos(line) ==
    SetMax({ i \in 1..(Len(line) - 3) :
               SubSeq(line, i, i + 3) = << ".", "g", "o", ":" >> }) + 3

\* The rest of parse_block_line once the range is cut at its comma.
BlockOfRange(file, start, end, parts) ==
    IF /\ split_once(start, ".").some
       /\ ParseU32(split_once(start, ".").left).some
       /\ split_once(end, ".").some
       /\ ParseU32(split_once(end, ".").left).some
       /\ Len(parts) >= 2
       /\ ParseU64(parts[2]).some
    THEN [some |-> TRUE, file |-> file,
          start_line |-> ParseU32(split_once(start, ".").left).value,
          end_line |-> ParseU32(split_once(end, ".").left).value,
          count |-> ParseU64(parts[2]).value]
    ELSE NoBlock

\* The rest of parse_block_line once the line is cut at its colon.
BlockOfRest(file, rest) ==
    IF split_once(rest, " ").some
          /\ split_once(split_once(rest, " ").left, ",").some
    THEN BlockOfRange(file,
                      split_once(split_once(rest, " ").left, ",").left,
                      split_once(split_once(rest, " ").left, ",").right,
                      split_whitespace(split_once(rest, " ").right))
    ELSE NoBlock

\* <file>:<startLine>.<startCol>,<endLine>.<endCol> <numStmt> <count>
parse_block_line(line) ==
    IF ~Contains(line, << ".", "g", "o", ":" >>) THEN NoBlock
    ELSE BlockOfRest(SubSeq(line, 1, GoColonPos(line) - 1),
                     SubSeq(line, GoColonPos(line) + 1, Len(line)))

\* The mutant of BlockCount: the count of the last block of a line stays.
BlockCountLast(entry, count) == count

\* if block.count > *entry { *entry = block.count; }
BlockCount(entry, count) == IF count > entry THEN count ELSE entry

\* The loop over start_line..=end_line of one block.
BlockLineHits(line_hits, block) ==
    [n \in DOMAIN line_hits \cup (block.start_line..block.end_line) |->
        IF n \in block.start_line..block.end_line
        THEN BlockCount(MapGet(line_hits, n, 0), block.count)
        ELSE line_hits[n]]

RECURSIVE BlocksLineHits(_, _)
BlocksLineHits(line_hits, blocks) ==
    IF blocks = << >> THEN line_hits
    ELSE BlocksLineHits(BlockLineHits(line_hits, Head(blocks)), Tail(blocks))

\* line_hits.into_iter().collect(): the entries of the map in an order of
\* the hasher's, here from the greatest line number down.
RECURSIVE MapEntries(_)
MapEntries(line_hits) ==
    IF DOMAIN line_hits = {} THEN << >>
    ELSE LET n == SetMax(DOMAIN line_hits)
         IN << [line_number |-> n, hit_count |-> line_hits[n]] >>
               \o MapEntries([k \in DOMAIN line_hits \ {n} |-> line_hits[k]])

blocks_to_file_coverage(path, blocks) ==
    [path |-> path,
     lines |-> sort_by_key(MapEntries(BlocksLineHits(EmptyMap, blocks))),
     branches |-> << >>, functions |-> << >>]

\* One turn of the reading loop: st is file_order and file_blocks.
GocoverLine(st, raw_line) ==
    LET line == Trim(raw_line)
        parsed == parse_block_line(line)
    IN IF line = << >> \/ StartsWith(line, << "m", "o", "d", "e", ":" >>)
       THEN st
       ELSE IF ~parsed.some THEN st
       ELSE [file_order |->
                IF parsed.file \in DOMAIN st.file_blocks THEN st.file_order
                ELSE Append(st.file_order, parsed.file),
             file_blocks |->
                MapInsert(st.file_blocks, parsed.file,
                          Append(MapGet(st.file_blocks, parsed.file, << >>),
                                 parsed))]

RECURSIVE GocoverLoop(_, _)
GocoverLoop(st, text) ==
    IF text = << >> THEN st
    ELSE GocoverLoop(GocoverLine(st, Head(text)), Tail(text))

\* The files emitted after the loop, in the order of file_order.
GocoverEmit(st) ==
    [i \in DOMAIN st.file_order |->
        blocks_to_file_coverage(st.file_order[i],
                                st.file_blocks[st.file_order[i]])]

gocover_parse(text) ==
    GocoverEmit(GocoverLoop([file_order |-> << >>, file_blocks |-> EmptyMap],
                            text))

\* The lines of the profiles: the mode line, blocks of two files that
\* overlap, a block whose end is before its start, a block with blanks
\* around it, a block whose count is no number, and lines that are no block.
GoLines ==
    { << "m", "o", "d", "e", ":", " ", "s", "e", "t" >>,
      << "a", ".", "g", "o", ":", "1", ".", "1", ",", "2", ".", "5", " ", "1", " ", "1" >>,
      << "a", ".", "g", "o", ":", "2", ".", "1", ",", "3", ".", "5", " ", "1", " ", "0" >>,
      << "a", ".", "g", "o", ":", "2", ".", "1", ",", "2", ".", "9", " ", "2", " ", "3" >>,
      << "a", ".", "g", "o", ":", "3", ".", "1", ",", "1", ".", "5", " ", "1", " ", "2" >>,
      << "b", ".", "g", "o", ":", "1", ".", "1", ",", "1", ".", "5", " ", "1", " ", "0" >>,
      << " ", "b", ".", "g", "o", ":", "5", ".", "1", ",", "6", ".", "2", " ", " ", "1", " ", "2", " " >>,
      << "b", ".", "g", "o", ":", "2", ".", "1", ",", "4", ".", "2", " ", "2", " ", "x" >>,
      << "x", "y" >>,
      << >> }

InitGocover ==
    /\ NoStoreNoDiff
    /\ lcov = LcovStart
    /\ \E k \in 0..MaxGoLines : \E text \in [1..k -> GoLines] :
          args = [text |-> text]
    /\ ret = NoReturn

\* The Go cover parser reads its whole input and then emits the files.
GocoverParse ==
    /\ ~ret.done
    /\ ret' = Returned(gocover_parse(args.text))
    /\ UNCHANGED << db, parser_vars, args, lcov >>

NextGocover == GocoverParse

SpecGocover == InitGocover /\ [][NextGocover]_vars

\* The blocks of the profile, in order.
GoBlocks(text) ==
    SelectSeq([i \in DOMAIN text |-> parse_block_line(Trim(text[i]))],
              LAMBDA b : b.some)

\* The paths of the blocks, each at its first place.
FirstSeen(blocks) ==
    LET firsts == { i \in DOMAIN blocks :
                      \A j \in 1..(i - 1) : blocks[j].file # blocks[i].file }
        places == SortedSeq(firsts)
    IN [k \in DOMAIN places |-> blocks[places[k]].file]

\* The blocks of a path that cover line n.
Covering(blocks, path, n) ==
    { b \in Range(blocks) :
        b.file = path /\ b.start_line <= n /\ n <= b.end_line }

\* C27: one file per distinct path, in first-seen order; its lines are the
\* integer lines that a block of the path covers, one entry each, in
\* ascending order, the hit count the greatest count of the covering blocks.
C27_GocoverExpansion ==
    ret.done =>
        LET blocks == GoBlocks(args.text)
            paths == FirstSeen(blocks)
        IN /\ Len(ret.value) = Len(paths)
           /\ \A k \in DOMAIN paths :
                 LET file == ret.value[k]
                 IN /\ file.path = paths[k]
                    /\ \A i, j \in DOMAIN file.lines :
                          i < j => file.lines[i].line_number
                                      < file.lines[j].line_number
                    /\ \A n \in GoLineNumbers :
                          (\E i \in DOMAIN file.lines :
                              file.lines[i].line_number = n)
                              <=> Covering(blocks, paths[k], n) # {}
                    /\ \A i \in DOMAIN file.lines :
                          /\ file.lines[i].line_number \in GoLineNumbers
                          /\ file.lines[i].hit_count =
                                SetMax({ b.count : b \in
                                    Covering(blocks, paths[k],
                                             file.lines[i].line_number) })

\* Two paths, the second one seen between blocks of the first, whose
\* blocks overlap on a line with different counts.
C27_Witness ==
    /\ ret.done
    /\ Len(ret.value) = 2
    /\ \E n \in GoLineNumbers :
          \E b1, b2 \in Covering(GoBlocks(args.text), ret.value[1].path, n) :
             b1.count < b2.count
    /\ \E i, j \in DOMAIN GoBlocks(args.text) :
          /\ i + 1 < j
          /\ GoBlocks(args.text)[i].file = GoBlocks(args.text)[j].file
          /\ GoBlocks(args.text)[i + 1].file # GoBlocks(args.text)[i].file

(***************************************************************************)
(* src/parsers/jacoco.rs: parse_streaming, on the events of the XML        *)
(* reader.                                                                 *)
(***************************************************************************)
MaxPackages == 2

MaxPackageElems == 2

JacocoStart ==
    [emitted |-> << >>, current_package |-> NoAttr,
     current_sourcefile |-> NoFileCoverage, branch_indices |-> EmptyMap,
     class_methods |-> EmptyMap, current_class_source |-> NoAttr,
     in_method |-> FALSE, current_method_name |-> NoAttr,
     current_method_line |-> None, method_hit |-> FALSE]

\* b"method" => ..
JacocoMethod(st, e) ==
    [st EXCEPT !.in_method = TRUE,
               !.current_method_name = get_attr(e, "name"),
               !.current_method_line =
                   IF ParseAttr(get_attr(e, "line")).some
                   THEN ParseAttr(get_attr(e, "line")).value ELSE None,
               !.method_hit = FALSE]

\* b"counter" if in_method => ..
JacocoCounter(st, e) ==
    IF /\ get_attr(e, "type") = [some |-> TRUE, value |-> "METHOD"]
       /\ unwrap_or_0(ParseAttr(get_attr(e, "covered"))) > 0
    THEN [st EXCEPT !.method_hit = TRUE]
    ELSE st

\* The mutant of JacocoAttach: the methods of the classes are not attached.
JacocoAttachNothing(st, name) == st

\* Attach methods collected from <class> elements that reference this
\* source file.
JacocoAttach(st, name) ==
    IF /\ st.current_package.some
       /\ << st.current_package.value, name >> \in DOMAIN st.class_methods
    THEN [st EXCEPT
             !.current_sourcefile.value.functions =
                 st.class_methods[<< st.current_package.value, name >>],
             !.class_methods =
                 [k \in DOMAIN @ \ {<< st.current_package.value, name >>} |-> @[k]]]
    ELSE st

\* b"sourcefile" => ..
JacocoSourcefile(st, e) ==
    IF get_attr(e, "name").some
    THEN JacocoAttach(
            [st EXCEPT
                !.current_sourcefile =
                    SomeFileCoverage(NewFileCoverage(
                        IF st.current_package.some
                        THEN << st.current_package.value, "/",
                                get_attr(e, "name").value >>
                        ELSE << get_attr(e, "name").value >>)),
                !.branch_indices = EmptyMap],
            get_attr(e, "name").value)
    ELSE st

\* The arms of a line: cb + mb of them from index idx on, the first cb hit.
JacocoArms(line_number, idx, cb, mb) ==
    [i \in 1..(cb + mb) |->
        [line_number |-> line_number, branch_index |-> idx + i - 1,
         hit_count |-> IF i - 1 < cb THEN 1 ELSE 0]]

\* The line of number line_number with the counters ci, mi, cb and mb.
JacocoCounters(st, line_number, ci, mi, cb, mb) ==
    [st EXCEPT
        !.current_sourcefile.value.lines =
            IF ci > 0 \/ mi > 0
            THEN Append(@, [line_number |-> line_number, hit_count |-> ci])
            ELSE @,
        !.current_sourcefile.value.branches =
            @ \o JacocoArms(line_number,
                            MapGet(st.branch_indices, line_number, 0), cb, mb),
        !.branch_indices =
            IF cb + mb > 0
            THEN MapInsert(@, line_number,
                           MapGet(st.branch_indices, line_number, 0) + cb + mb)
            ELSE @]

\* b"line" => ..
JacocoLineElem(st, e) ==
    IF st.current_sourcefile.some /\ ParseAttr(get_attr(e, "nr")).some
    THEN JacocoCounters(st, ParseAttr(get_attr(e, "nr")).value,
                        unwrap_or_0(ParseAttr(get_attr(e, "ci"))),
                        unwrap_or_0(ParseAttr(get_attr(e, "mi"))),
                        unwrap_or_0(ParseAttr(get_attr(e, "cb"))),
                        unwrap_or_0(ParseAttr(get_attr(e, "mb"))))
    ELSE st

\* Event::End of b"method"
JacocoMethodEnd(st) ==
    IF st.in_method
    THEN [st EXCEPT
            !.class_methods =
                IF /\ st.current_package.some
                   /\ st.current_class_source.some
                   /\ st.current_method_name.some
                THEN MapInsert(@,
                        << st.current_package.value,
                           st.current_class_source.value >>,
                        Append(MapGet(@, << st.current_package.value,
                                            st.current_class_source.value >>,
                                      << >>),
                               [name |-> st.current_method_name.value,
                                start_line |-> st.current_method_line,
                                end_line |-> None,
                                hit_count |-> IF st.method_hit THEN 1 ELSE 0]))
                ELSE @,
            !.in_method = FALSE,
            !.current_method_name = NoAttr,
            !.current_method_line = None]
    ELSE st

\* if let Some(mut file) = current_sourcefile.take() { sort; emit(file)?; }
JacocoTakeAndEmit(st) ==
    [st EXCEPT
        !.current_sourcefile = NoFileCoverage,
        !.emitted =
            IF st.current_sourcefile.some
            THEN Append(@, [st.current_sourcefile.value EXCEPT
                               !.lines = sort_by_key(@)])
            ELSE @]

\* One turn of the loop of parse_streaming.
JacocoEvent(st, e) ==
    CASE e.kind \in {"Start", "Empty"} /\ e.name = "package" ->
            [st EXCEPT !.current_package = get_attr(e, "name")]
      [] e.kind = "Start" /\ e.name = "class" ->
            [st EXCEPT !.current_class_source = get_attr(e, "sourcefilename")]
      [] e.kind \in {"Start", "Empty"} /\ e.name = "method" -> JacocoMethod(st, e)
      [] e.kind \in {"Start", "Empty"} /\ e.name = "counter" /\ st.in_method ->
            JacocoCounter(st, e)
      [] e.kind \in {"Start", "Empty"} /\ e.name = "sourcefile" ->
            JacocoSourcefile(st, e)
      [] e.kind \in {"Start", "Empty"} /\ e.name = "line" -> JacocoLineElem(st, e)
      [] e.kind = "End" /\ e.name = "package" ->
            [st EXCEPT !.current_package = NoAttr]
      [] e.kind = "End" /\ e.name = "class" ->
            [st EXCEPT !.current_class_source = NoAttr]
      [] e.kind = "End" /\ e.name = "method" -> JacocoMethodEnd(st)
      [] e.kind = "End" /\ e.name = "sourcefile" -> JacocoTakeAndEmit(st)
      [] OTHER -> st

RECURSIVE JacocoLoop(_, _)
JacocoLoop(st, events) ==
    IF events = << >> THEN st
    ELSE JacocoLoop(JacocoEvent(st, Head(events)), Tail(events))

jacoco_parse(events) ==
    JacocoTakeAndEmit(JacocoLoop(JacocoStart, events)).emitted

\* The elements of a report: a class of one method for a source file, the
\* METHOD counter of the method covered or not, and a source file with one
\* line or none.
JacocoElems ==
    [kind : {"class"}, source : {"A.java", "B.java"}, covered : {0, 1}]
        \cup [kind : {"sourcefile"}, source : {"A.java", "B.java"},
              covered : {0, 1}]

\* The packages of a report; the elements of "" have no enclosing package.
JacocoPackages ==
    [name : {"", "p", "q"}, elems : SeqsUpTo(JacocoElems, MaxPackageElems)]

\* The events the reader gives for an element.
JacocoElemEvents(el) ==
    IF el.kind = "class"
    THEN << XmlEvent("Start", "class", [sourcefilename |-> el.source]),
            XmlEvent("Start", "method", [name |-> "m", line |-> << "3" >>]),
            XmlEvent("Empty", "counter",
                     [type |-> "METHOD", covered |-> Decimal(el.covered)]),
            XmlEvent("End", "method", << >>),
            XmlEvent("End", "class", << >>) >>
    ELSE << XmlEvent("Start", "sourcefile", [name |-> el.source]) >>
            \o (IF el.covered = 1
                THEN << XmlEvent("Empty", "line",
                                 [nr |-> << "3" >>, ci |-> << "1" >>,
                                  mi |-> << "0" >>, cb |-> << "1" >>,
                                  mb |-> << "1" >>]) >>
                ELSE << >>)
            \o << XmlEvent("End", "sourcefile", << >>) >>

RECURSIVE JacocoElemsEvents(_)
JacocoElemsEvents(elems) ==
    IF elems = << >> THEN << >>
    ELSE JacocoElemEvents(Head(elems)) \o JacocoElemsEvents(Tail(elems))

\* The events the reader gives for a package and for a report.
JacocoPackageEvents(p) ==
    IF p.name = "" THEN JacocoElemsEvents(p.elems)
    ELSE << XmlEvent("Start", "package", [name |-> p.name]) >>
            \o JacocoElemsEvents(p.elems)
            \o << XmlEvent("End", "package", << >>) >>

RECURSIVE JacocoReportEvents(_)
JacocoReportEvents(packages) ==
    IF packages = << >> THEN << >>
    ELSE JacocoPackageEvents(Head(packages))
            \o JacocoReportEvents(Tail(packages))

InitJacoco ==
    /\ NoStoreNoDiff
    /\ lcov = LcovStart
    /\ \E k \in 1..MaxPackages : \E packages \in [1..k -> JacocoPackages] :
          /\ \A i, j \in 1..k : i # j => packages[i].name # packages[j].name
          /\ args = [packages |-> packages]
    /\ ret = NoReturn

\* The JaCoCo parser reads its whole input, emitting the files.
JacocoParse ==
    /\ ~ret.done
    /\ ret' = Returned(jacoco_parse(JacocoReportEvents(args.packages)))
    /\ UNCHANGED << db, parser_vars, args, lcov >>

NextJacoco == JacocoParse

SpecJacoco == InitJacoco /\ [][NextJacoco]_vars

\* The path of the file of source file source in package p.
JacocoPath(p, source) ==
    IF p.name = "" THEN << source >> ELSE << p.name, "/", source >>

\* The functions of the methods of the classes of source in package p that
\* are among the first n elements of the package.
MethodsOf(p, source, n) ==
    LET classes == SelectSeq(SubSeq(p.elems, 1, n),
                             LAMBDA el : el.kind = "class" /\ el.source = source)
    IN [i \in DOMAIN classes |->
           [name |-> "m", start_line |-> 3, end_line |-> None,
            hit_count |-> IF classes[i].covered > 0 THEN 1 ELSE 0]]

\* The functions of the files emitted with path.
FunctionsAt(files, path) ==
    SelectSeq(files, LAMBDA f : f.path = path)

\* The package has one <sourcefile> of that name.
OneSourcefile(p, source) ==
    Cardinality({ i \in DOMAIN p.elems :
                    p.elems[i].kind = "sourcefile"
                        /\ p.elems[i].source = source }) = 1

\* C28: the methods of the classes of source file X of a package are the
\* functions, one each and hit as their METHOD counter says, of the file
\* emitted for <sourcefile name=X> of that package, whatever the order of
\* the classes and the source file and with or without enclosing package.
C28_MethodAttachment ==
    ret.done =>
        \A i \in DOMAIN args.packages :
            \A source \in {"A.java", "B.java"} :
                LET p == args.packages[i]
                    files == FunctionsAt(ret.value, JacocoPath(p, source))
                IN OneSourcefile(p, source)
                      => /\ Len(files) = 1
                         /\ files[1].functions = MethodsOf(p, source, Len(p.elems))

\* The same for the classes that precede the source file in a package that
\* encloses them: the classes that follow it, and all of them without a
\* package, leave no function.
C28_MethodsOfEarlierClasses ==
    ret.done =>
        \A i \in DOMAIN args.packages :
            \A source \in {"A.java", "B.java"} :
                LET p == args.packages[i]
                    files == FunctionsAt(ret.value, JacocoPath(p, source))
                    at == CHOOSE n \in DOMAIN p.elems :
                             p.elems[n].kind = "sourcefile"
                                 /\ p.elems[n].source = source
                IN OneSourcefile(p, source)
                      => /\ Len(files) = 1
                         /\ files[1].functions =
                               IF p.name = "" THEN << >>
                               ELSE MethodsOf(p, source, at)

(***************************************************************************)
(* The summary of the store and the summaries of its files.                *)
(***************************************************************************)
\* The sum of a field over the rows get_file_summaries returns.
RECURSIVE SumOf(_, _)
SumOf(summaries, field) ==
    IF summaries = << >> THEN 0
    ELSE Head(summaries)[field] + SumOf(Tail(summaries), field)

\* The totals of the lines agree.
LineTotalsAgree(summary, files) ==
    /\ SumOf(files, "total_lines") = summary.total_lines
    /\ SumOf(files, "covered_lines") = summary.covered_lines
    /\ Len(files) = summary.total_files

\* C29: with a report in the store, the per-file summaries add up to the
\* totals of get_summary for lines and branches, there are total_files of
\* them, and covered is at most total for lines, branches and functions.
C29_SummaryConsistency ==
    db.report # {} =>
        LET summary == get_summary(db)
            files == get_file_summaries(db)
        IN /\ summary.ok
           /\ LineTotalsAgree(summary, files)
           /\ SumOf(files, "total_branches") = summary.total_branches
           /\ SumOf(files, "covered_branches") = summary.covered_branches
           /\ summary.covered_lines <= summary.total_lines
           /\ summary.covered_branches <= summary.total_branches
           /\ summary.covered_functions <= summary.total_functions
           /\ \A i \in DOMAIN files :
                 /\ files[i].covered_lines <= files[i].total_lines
                 /\ files[i].covered_branches <= files[i].total_branches

\* The same without the branches of the files that have no line.
C29_SummaryConsistencyOfLines ==
    db.report # {} =>
        LET summary == get_summary(db)
            files == get_file_summaries(db)
        IN /\ summary.ok
           /\ LineTotalsAgree(summary, files)
           /\ summary.covered_lines <= summary.total_lines
           /\ summary.covered_branches <= summary.total_branches
           /\ summary.covered_functions <= summary.total_functions
           /\ (\A b \in db.branch_coverage :
                  \E l \in db.line_coverage : l.source_file_id = b.source_file_id)
                 => /\ SumOf(files, "total_branches") = summary.total_branches
                    /\ SumOf(files, "covered_branches") = summary.covered_branches

(***************************************************************************)
(* src/db.rs: the queries statement by statement.  open() puts the         *)
(* database in WAL mode and the queries open no transaction, so every      *)
(* statement of a query reads the store as it is when the statement runs,  *)
(* and an ingest of another connection may commit between two of them.     *)
(***************************************************************************)
\* The ingests that commit next to a query: one file with one row.
IsolationPayloads ==
    { files \in RowPayloads : Len(files) = 1 /\ RowCount(files[1]) = 1 }

\* The queries that are run: the diff holds line 1 of one path.
Queries ==
    [query : {"get_lines", "diff_coverage"}, path : Paths]
        \cup [query : {"get_summary", "get_file_summaries"}, path : {"a"}]

IsolationDiffLines == << 1 >>

\* SELECT id FROM source_file WHERE path = ?1
FileIdStatement(s, path) ==
    LET found == { sf \in s.source_file : sf.path = path }
    IN [found |-> found # {},
        id |-> IF found = {} THEN 0 ELSE (CHOOSE sf \in found : TRUE).id]

\* The data statement of get_lines, prepared for the mode read before it.
LinesStatement(s, union, source_file_id) ==
    LET rows == { x \in s.line_coverage : x.source_file_id = source_file_id }
        grouped == { [report_id |-> 0, line_number |-> g.line_number,
                      hit_count |-> g.hit_count] : g \in LineGroups(rows) }
    IN IF union THEN OrderByLine(grouped) ELSE OrderByLine(rows)

\* The data statement of get_file_summaries.
FileSummariesStatement(s, union) ==
    LET line_src == union_source(union, "Line", s)
        branch_src == union_source(union, "Branch", s)
        joined == { sf \in s.source_file :
                      \E lc \in line_src : lc.source_file_id = sf.id }
        paths == SortedPaths({ sf.path : sf \in joined })
        summary(path) ==
            LET ids == { sf.id : sf \in { x \in joined : x.path = path } }
                lc == { x \in line_src : x.source_file_id \in ids }
                bc == { x \in branch_src : x.source_file_id \in ids }
            IN [path |-> path,
                total_lines |-> Cardinality(lc),
                covered_lines |-> CountHit(lc),
                total_branches |-> Cardinality(bc),
                covered_branches |-> CountHit(bc)]
    IN [i \in DOMAIN paths |-> summary(paths[i])]

\* What diff_coverage makes of the rows of the statements of one path.
DiffOfRows(path, rows) ==
    LET covered == SelectSeq(rows, LAMBDA r : r.hit_count > 0)
        missed == SelectSeq(rows, LAMBDA r : ~(r.hit_count > 0))
        results ==
            IF rows = << >> THEN << >>
            ELSE << [path |-> path,
                     covered_lines |->
                         SortLines([i \in DOMAIN covered |->
                                       covered[i].line_number]),
                     missed_lines |->
                         SortLines([i \in DOMAIN missed |->
                                       missed[i].line_number])] >>
    IN [files |-> results,
        total_covered |-> SumLen(results, "covered_lines"),
        total_instrumentable |->
            SumLen(results, "covered_lines") + SumLen(results, "missed_lines")]

NoSummary ==
    [ok |-> TRUE, total_files |-> 0, total_lines |-> 0, covered_lines |-> 0,
     total_branches |-> 0, covered_branches |-> 0, total_functions |-> 0,
     covered_functions |-> 0]

\* A query before its first statement, on a store that is s.
QueryStart(q, s) ==
    [query |-> q.query, path |-> q.path, pc |-> 1, union |-> FALSE,
     file_id |-> 0, result |-> << >>, start |-> s, commits |-> 0,
     finished |-> FALSE]

Finish(q, value) == [q EXCEPT !.result = value, !.finished = TRUE]

\* get_lines: the file id, the mode, the rows.
GetLinesStatement(q, s) ==
    CASE q.pc = 1 ->
            LET f == FileIdStatement(s, q.path)
            IN IF f.found THEN [q EXCEPT !.file_id = f.id, !.pc = 2]
               ELSE Finish(q, [ok |-> FALSE, lines |-> << >>])
      [] q.pc = 2 -> [q EXCEPT !.union = needs_union(s), !.pc = 3]
      [] q.pc = 3 ->
            Finish(q, [ok |-> TRUE,
                       lines |-> LinesStatement(s, q.union, q.file_id)])

\* get_summary: the report count, then the lines, the branches and the
\* functions.
GetSummaryStatement(q, s) ==
    CASE q.pc = 1 ->
            IF Cardinality(s.report) = 0 THEN Finish(q, [ok |-> FALSE])
            ELSE [q EXCEPT !.union = Cardinality(s.report) > 1,
                           !.result = NoSummary, !.pc = 2]
      [] q.pc = 2 ->
            LET line_src == union_source(q.union, "Line", s)
            IN [q EXCEPT
                  !.result.total_files =
                      Cardinality({ x.source_file_id : x \in line_src }),
                  !.result.total_lines = Cardinality(line_src),
                  !.result.covered_lines = CountHit(line_src),
                  !.pc = 3]
      [] q.pc = 3 ->
            LET branch_src == union_source(q.union, "Branch", s)
            IN [q EXCEPT
                  !.result.total_branches = Cardinality(branch_src),
                  !.result.covered_branches = CountHit(branch_src),
                  !.pc = 4]
      [] q.pc = 4 ->
            LET function_src == union_source(q.union, "Function", s)
            IN Finish(q, [q.result EXCEPT
                            !.total_functions = Cardinality(function_src),
                            !.covered_functions = CountHit(function_src)])

\* get_file_summaries: the mode, then the statement.
GetFileSummariesStatement(q, s) ==
    CASE q.pc = 1 -> [q EXCEPT !.union = needs_union(s), !.pc = 2]
      [] q.pc = 2 -> Finish(q, FileSummariesStatement(s, q.union))

\* diff_coverage of one path: the mode, the file id, the chunk of lines.
DiffCoverageStatement(q, s) ==
    CASE q.pc = 1 -> [q EXCEPT !.union = needs_union(s), !.pc = 2]
      [] q.pc = 2 ->
            LET f == FileIdStatement(s, q.path)
            IN IF f.found THEN [q EXCEPT !.file_id = f.id, !.pc = 3]
               ELSE Finish(q, DiffOfRows(q.path, << >>))
      [] q.pc = 3 ->
            Finish(q, DiffOfRows(q.path,
                        ChunkRows(s, q.union, q.file_id, IsolationDiffLines)))

\* The next statement of the query q on the store s.
QueryStatement(q, s) ==
    CASE q.query = "get_lines" -> GetLinesStatement(q, s)
      [] q.query = "get_summary" -> GetSummaryStatement(q, s)
      [] q.query = "get_file_summaries" -> GetFileSummariesStatement(q, s)
      [] q.query = "diff_coverage" -> DiffCoverageStatement(q, s)

\* The query of q as one call on the store s.
QueryOn(q, s) ==
    CASE q.query = "get_lines" -> get_lines(s, q.path)
      [] q.query = "get_summary" -> get_summary(s)
      [] q.query = "get_file_summaries" -> get_file_summaries(s)
      [] q.query = "diff_coverage" ->
            diff_coverage(s, [p \in {q.path} |-> IsolationDiffLines])

Idle == ret = NoReturn

Running == ~Idle /\ ~ret.done

\* covrs ingest on its own connection: its transaction commits as one step,
\* before a query, or once between the statements of the running query.
IsolationIngest(name, overwrite, files) ==
    /\ Idle \/ (Running /\ ret.value.commits = 0)
    /\ db' = ingest(db, TRUE, name, overwrite, files, "none").store
    /\ CoverageRows(db') <= MaxStoreRows
    /\ ret' = IF Idle THEN ret
              ELSE [ret EXCEPT !.value.commits = @ + 1]
    /\ UNCHANGED << parser_vars, args, lcov >>

\* The query starts on the other connection and runs its first statement.
RunQuery(q) ==
    /\ Idle
    /\ LET after == QueryStatement(QueryStart(q, db), db)
       IN ret' = [done |-> after.finished, value |-> after]
    /\ UNCHANGED << db, parser_vars, args, lcov >>

\* The next statement of the running query.
RunStatement ==
    /\ Running
    /\ LET after == QueryStatement(ret.value, db)
       IN ret' = [done |-> after.finished, value |-> after]
    /\ UNCHANGED << db, parser_vars, args, lcov >>

NextIsolation ==
    \/ \E name \in Names, overwrite \in BOOLEAN, files \in IsolationPayloads :
          IsolationIngest(name, overwrite, files)
    \/ \E q \in Queries : RunQuery(q)
    \/ RunStatement

SpecIsolation == Init /\ [][NextIsolation]_vars

\* C30: a query that interleaves with one committing ingest returns what it
\* returns on the store before the commit or on the store after it; get_lines
\* lists no line number twice and diff_coverage counts no line twice.
C30_QueryIsolation ==
    ret.done =>
        /\ \/ ret.value.result = QueryOn(ret.value, ret.value.start)
           \/ ret.value.result = QueryOn(ret.value, db)
        /\ (ret.value.query = "get_lines" =>
               \A i, j \in DOMAIN ret.value.result.lines :
                  ret.value.result.lines[i].line_number
                      = ret.value.result.lines[j].line_number => i = j)
        /\ (ret.value.query = "diff_coverage" =>
               ret.value.result.total_instrumentable <= Len(IsolationDiffLines))

\* Without a commit between its statements the query returns what the call
\* returns on the store.
C30_QueryAlone ==
    (ret.done /\ ret.value.commits = 0) =>
        ret.value.result = QueryOn(ret.value, db)

====
